---- MODULE Spec2Model ----
(***************************************************************************)
(* HEIC to JPEG browser extension: the request/response relay between the  *)
(* content script (Page Agent), the background service worker             *)
(* (Dispatcher), the offscreen document (Relay Host) and the sandboxed     *)
(* iframe (Converter Cell), with chrome.storage.local as the signal tier   *)
(* and IndexedDB as the bulk tier.                                         *)
(*                                                                         *)
(* Several state machines share this module:                               *)
(*   Spec / RestartSpec   the relay pipeline, one step per await           *)
(*   PollSpec             waitForResult with its clock                     *)
(*   PlaceholderSpec      insertPlaceholder / removePlaceholder            *)
(*   EditedSpec           removePlaceholder on an edited textarea          *)
(*   PasteSpec            the file loop of one paste or drop event         *)
(*   IdSpec               requestIds taken from the millisecond clock      *)
(*   StoreSpec            the IndexedDB object store of db.js              *)
(*   ErrSpec              getErrorMessage over thrown values               *)
(*   QueueSpec            queueConversion / processQueue, three ids        *)
(*   SetupSpec            setupOffscreenDocument, await by await           *)
(*   SandboxSpec          setupSandbox / resetSandbox with their timers    *)
(*   ChannelSpec          the two chrome.runtime.onMessage listeners       *)
(*   MirrorSpec           the mirror step and its cleanup, failing deletes *)
(*   OverlapSpec          overlapping events with identical placeholders   *)
(*   EventSpec            the capture listeners and the re-dispatch        *)
(* Timers of the pipeline are abstracted to "may fire while armed".        *)
(***************************************************************************)
EXTENDS Integers, Sequences, FiniteSets, TLC

(***************************************************************************)
(* Bounds                                                                  *)
(***************************************************************************)
NumRequests == 2
MaxTeardowns == 1
MaxGetLatency == 1
MaxTextLen == 3
MaxTokenLen == 2

Ids == 1..NumRequests

(***************************************************************************)
(* Strings as tuples of characters, so that the regular expression of the  *)
(* rename and the substring arithmetic of the placeholder are computed.    *)
(***************************************************************************)
Lower(c) ==
    CASE c = "H" -> "h"
      [] c = "E" -> "e"
      [] c = "I" -> "i"
      [] c = "C" -> "c"
      [] OTHER -> c

LowerAll(s) == [i \in 1..Len(s) |-> Lower(s[i])]

EndsWithHeicIgnoreCase(name) ==
    /\ Len(name) >= 5
    /\ LowerAll(SubSeq(name, Len(name) - 4, Len(name))) = <<".", "h", "e", "i", "c">>

\* the same replace without the i flag
ReplaceHeicMutant(name) ==
    IF Len(name) >= 5 /\ SubSeq(name, Len(name) - 4, Len(name)) = <<".", "h", "e", "i", "c">>
    THEN SubSeq(name, 1, Len(name) - 5) \o <<".", "j", "p", "g">>
    ELSE name

\* fileName.replace(/\.heic$/i, '.jpg')
ReplaceHeic(name) ==
    IF EndsWithHeicIgnoreCase(name)
    THEN SubSeq(name, 1, Len(name) - 5) \o <<".", "j", "p", "g">>
    ELSE name

PhotoHeic == <<"p", ".", "h", "e", "i", "c">>
PhotoJpg == <<"p", ".", "j", "p", "g">>

\* The files a paste or drop can carry: name and bytes.
Files ==
    { [name |-> PhotoHeic, bytes |-> "heicA"],
      [name |-> <<"p", ".", "H", "e", "I", "C">>, bytes |-> "heicA"],
      [name |-> <<"h", "e", "i", "c", ".", "x">>, bytes |-> "heicA"],
      [name |-> <<"e", ".", "h", "e", "i", "c">>, bytes |-> "" ] }

\* The file of every paste after the first.
OtherFile == [name |-> <<"q", ".", "h", "e", "i", "c">>, bytes |-> "heicB"]

\* FileReader.readAsDataURL / fetch(dataUri).blob(): a data URI wraps the bytes.
DataUri(bytes) == <<"data:", bytes>>
BlobOf(uri) == uri[2]

\* heic2any, the opaque engine: the JPEG bytes of a HEIC blob.
Heic2Any(blob) ==
    CASE blob = "heicA" -> "jpegA"
      [] blob = "heicB" -> "jpegB"
      [] OTHER -> "jpeg"

(***************************************************************************)
(* Records of the two storage tiers.  A JavaScript object with a missing   *)
(* property reads as undefined: "undefined", <<>> and FALSE stand for it.  *)
(***************************************************************************)
NoRecord ==
    [present |-> FALSE, success |-> "undefined", data |-> <<>>,
     fileName |-> <<>>, error |-> <<>>, detail |-> FALSE]

\* { data: base64Data, fileName: file.name }
RequestRecord(f) ==
    [present |-> TRUE, success |-> "undefined", data |-> DataUri(f.bytes),
     fileName |-> f.name, error |-> <<>>, detail |-> FALSE]

\* { success: true, data: result.data, fileName: result.fileName }
SuccessRecord(data, fileName) ==
    [present |-> TRUE, success |-> "true", data |-> data,
     fileName |-> fileName, error |-> <<>>, detail |-> FALSE]

\* variant: the catch of processQueue saves nothing
RelayErrorRecordUnsaved(msg) == NoRecord

\* { error: error.message, errorTime: ..., errorStack: error.stack }
RelayErrorRecord(msg) ==
    [present |-> TRUE, success |-> "undefined", data |-> <<>>,
     fileName |-> <<>>, error |-> msg, detail |-> TRUE]

\* variant: the listener's catch only logs the error
DispatcherErrorRecordUnsaved(msg) == NoRecord

\* { error: error.message }
DispatcherErrorRecord(msg) ==
    [present |-> TRUE, success |-> "undefined", data |-> <<>>,
     fileName |-> <<>>, error |-> msg, detail |-> FALSE]

\* `[File: ${fileName}, Size: ..., Time: ...ms] ${errorMsg}`
DetailedError(errorMsg) == <<"[File, Size, Time] ">> \o errorMsg

DecodeError == <<"decode error">>
EngineTimedOut == <<"heic2any conversion timed out">>
EmptyBlob == <<"[Step 1] Empty blob received">>
NoImageData == <<"[Offscreen Step 1] No image data found in IndexedDB">>
SandboxTimeout == <<"[Offscreen Step 3] Sandbox timeout">>
NoDataFound == <<"No data found for request">>
ConversionTimeout == <<"Conversion timeout">>
\* the message of the error chrome.offscreen.createDocument rejects with
CreationFailed == <<"createDocument failed">>

\* What the engine call can do: resolve, throw, or lose the race with the timer.
EngineOutcomes == {"ok", "throw", "timer"}

(***************************************************************************)
(* State                                                                   *)
(***************************************************************************)
VARIABLES
    files,            \* the file of each paste/drop
    pagePc,           \* Page Agent: position in handleDataTransfer, per request
    pageResult,       \* Page Agent: the record its poll resolved with
    banner,           \* Page Agent: the error banner shown for the request
    sigReq, sigRes,   \* chrome.storage.local: request_<id>, result_<id>
    bulkReq, bulkRes, \* IndexedDB: request_<id>, result_<id>
    bgMsgs,           \* notifications in flight to the Dispatcher
    offMsgs,          \* notifications in flight to the Relay Host
    dispPc,           \* Dispatcher: position in performConversion, per request
    offscreen,        \* the offscreen document exists
    creating,         \* Dispatcher: the in-flight creation promise
    teardowns,        \* number of service-worker teardowns so far
    conversionQueue, isProcessing,
    rhPc, rhCur, rhData, rhOut,
    sandboxFrame, sandboxReady, pendingRequests,
    cellLoaded, isConverting, cellCur,
    activeLoops,      \* history: drain loops that passed the isProcessing guard
    inFlight,         \* history: requests posted to the cell, result not yet saved
    cellReceived, cellReplied, \* history: CONVERT_HEIC received / CONVERT_RESULT posted
    cellDropped,      \* history: CONVERT_HEIC ignored by a busy cell
    invocations,      \* history: performConversion calls started, per request
    now, startTime, pollPc, ctxValid, pollStored, pollBanner,
    dbLog,            \* history: the store operations so far, oldest first
    dbGot,            \* what the last getImage resolved with
    errIn, errOut,    \* the value thrown in the cell and what getErrorMessage made of it
    errPc,
    numItems,          \* one paste/drop event: the number of HEIC items in it
    canUsePlaceholder, \* the event's target is a textarea
    pastePc, itemIdx,  \* position in handleDataTransfer and in its file loop
    runtimeId,         \* chrome.runtime.id is there: the extension context is valid
    placeholders,      \* the files whose placeholder token is in the textarea
    pasteReq,          \* the files whose request_<id> is in storage.local
    pasteRes,          \* result_<id> in storage.local, per file
    polls,             \* storage reads made by waitForResult, per file
    itemOutcome,       \* how the loop body ended, per file
    pasteBanner,       \* the banner the catch showed, per file
    earlyBanner,       \* the banner of the early context check
    convertedFiles, dispatched,
    clockMs,           \* Date.now(), the one wall clock all pages of the machine read
    agentPc, agentId,  \* per Page Agent: position around the request write, its requestId
    idRequest,         \* storage.local: the agent whose file request_<id> holds, 0 for none
    queuedLog,         \* history: the requestIds queueConversion pushed, oldest first
    startedLog,        \* history: the requestIds processConversion was called with, oldest first
    finishedCount,     \* history: processConversion calls that have ended
    setupPc,           \* setupOffscreenDocument: where each call stands
    creatingPromise,   \* the global `creating`: "null", or the state of the promise it holds
    browserCalls,      \* extension API calls on their way to the browser, oldest first
    browserReplies,    \* the browser's answers on their way to the service worker, oldest first
    docState,          \* the offscreen document in the browser: "none", "loading", "ready"
    createCalls,       \* history: calls of chrome.offscreen.createDocument
    setupCount,        \* setupSandbox calls that built a frame; the last one built the current frame
    readyHandlers,     \* the setupSandbox calls whose readyHandler is registered on window
    readyTimers,       \* the setupSandbox calls whose 3 s timer is pending, oldest first
    resolvedSetups,    \* the setupSandbox calls whose promise is resolved
    readyMsgs,         \* SANDBOX_READY messages posted to the window and not yet dispatched
    bgInbox,           \* runtime messages not yet dispatched to the service worker's listener
    offInbox,          \* runtime messages not yet dispatched to the offscreen document's listener
    bgStarted,         \* history: the messages for which the listener called performConversion
    offQueued,         \* history: the messages for which the listener called queueConversion
    sentMsgs,          \* history: the messages sent with chrome.runtime.sendMessage
    mirrorPc,          \* performConversion from its poll on: where each invocation stands
    mirrorBulk,        \* the object store: the keys it holds
    mirrorResult,      \* the object store: what result_<id> holds, "none", "success", "error"
    mirrorSignal,      \* storage.local: what result_<id> holds
    mirroredOk,        \* history: a success result of the id was mirrored into storage.local
    mirrorPage,        \* the content script's poll: "waiting", or the kind of result it got
    olValue,           \* overlapping events: textarea.value
    olStart,           \* overlapping events: textarea.selectionStart
    olEnd,             \* overlapping events: textarea.selectionEnd
    olPc,              \* overlapping events: where each handleDataTransfer stands with its file
    olPos,             \* overlapping events: placeholderPosition of each handler
    olOutcome,         \* overlapping events: how waitForResult ended for each handler
    olRemovals,        \* history: how many times removePlaceholder took effect for each handler
    evLog,             \* paste / drop events seen by the capture listener, and what each led to
    evPc,              \* handleDataTransfer of the newest event: where it stands
    evRuntime,         \* chrome.runtime.id is there
    evTextarea,        \* canUsePlaceholder
    evHeic,            \* heicItems still to be handled
    evConverted,       \* convertedFiles
    taValue, selectionStart, selectionEnd, phText, phPos, phPc, taOriginal

storeVars == <<sigReq, sigRes, bulkReq, bulkRes>>
pageVars == <<files, pagePc, pageResult, banner>>
dispVars == <<bgMsgs, dispPc, offscreen, creating, teardowns>>
relayVars == <<offMsgs, conversionQueue, isProcessing, rhPc, rhCur, rhData, rhOut,
               sandboxFrame, sandboxReady, pendingRequests>>
cellVars == <<cellLoaded, isConverting, cellCur>>
histVars == <<activeLoops, inFlight, cellReceived, cellReplied, cellDropped, invocations>>
pipeVars == <<storeVars, pageVars, dispVars, relayVars, cellVars, histVars>>
pollVars == <<now, startTime, pollPc, ctxValid, pollStored, pollBanner>>
phVars == <<taValue, selectionStart, selectionEnd, phText, phPos, phPc, taOriginal>>
dbVars == <<dbLog, dbGot>>
errVars == <<errIn, errOut, errPc>>
pasteVars == <<numItems, canUsePlaceholder, pastePc, itemIdx, runtimeId, placeholders,
               pasteReq, pasteRes, polls, itemOutcome, pasteBanner, earlyBanner,
               convertedFiles, dispatched>>
idVars == <<clockMs, agentPc, agentId, idRequest>>
queueVars == <<queuedLog, startedLog, finishedCount>>
setupVars == <<setupPc, creatingPromise, browserCalls, browserReplies, docState, createCalls>>
sandboxVars == <<setupCount, readyHandlers, readyTimers, resolvedSetups, readyMsgs>>
channelVars == <<bgInbox, offInbox, bgStarted, offQueued, sentMsgs>>
mirrorVars == <<mirrorPc, mirrorBulk, mirrorResult, mirrorSignal, mirroredOk, mirrorPage>>
overlapVars == <<olValue, olStart, olEnd, olPc, olPos, olOutcome, olRemovals>>
eventVars == <<evLog, evPc, evRuntime, evTextarea, evHeic, evConverted>>
moreVars == <<queueVars, setupVars, sandboxVars, channelVars, mirrorVars, overlapVars, eventVars>>
extraVars == <<dbVars, errVars, pasteVars, idVars, moreVars>>
vars == <<pipeVars, pollVars, phVars, extraVars>>

NoMessage == [requestId |-> 0, base64Data |-> <<>>, fileName |-> <<>>]

PipeIdle ==
    /\ pagePc = [r \in Ids |-> "idle"]
    /\ pageResult = [r \in Ids |-> NoRecord]
    /\ banner = [r \in Ids |-> "none"]
    /\ sigReq = [r \in Ids |-> NoRecord]
    /\ sigRes = [r \in Ids |-> NoRecord]
    /\ bulkReq = [r \in Ids |-> NoRecord]
    /\ bulkRes = [r \in Ids |-> NoRecord]
    /\ bgMsgs = {}
    /\ offMsgs = <<>>
    /\ dispPc = [r \in Ids |-> "none"]
    /\ offscreen = FALSE
    /\ creating = FALSE
    /\ teardowns = 0
    /\ conversionQueue = <<>>
    /\ isProcessing = FALSE
    /\ rhPc = "idle"
    /\ rhCur = 0
    /\ rhData = NoRecord
    /\ rhOut = NoRecord
    /\ sandboxFrame = FALSE
    /\ sandboxReady = FALSE
    /\ pendingRequests = {}
    /\ cellLoaded = FALSE
    /\ isConverting = FALSE
    /\ cellCur = NoMessage
    /\ activeLoops = 0
    /\ inFlight = 0
    /\ cellReceived = [r \in Ids |-> 0]
    /\ cellReplied = [r \in Ids |-> 0]
    /\ cellDropped = [r \in Ids |-> 0]
    /\ invocations = [r \in Ids |-> 0]

PollIdle ==
    /\ now = 0
    /\ startTime = 0
    /\ pollPc = "off"
    /\ ctxValid = TRUE
    /\ pollStored = FALSE
    /\ pollBanner = "none"

PlaceholderIdle ==
    /\ taValue = <<>>
    /\ selectionStart = 0
    /\ selectionEnd = 0
    /\ phText = <<>>
    /\ phPos = -1
    /\ phPc = "off"
    /\ taOriginal = [value |-> <<>>, start |-> 0, end |-> 0]

StoreIdle ==
    /\ dbLog = <<>>
    /\ dbGot = NoRecord

\* a thrown value: a string, an Error, a plain object, null, undefined or a number.
\* message and error are <<>> when the property is missing and <<v>> when it holds v.
ErrValue(kind, text, message, error, code) ==
    [kind |-> kind, text |-> text, message |-> message, error |-> error, code |-> code]

Undefined == ErrValue("undefined", "", <<>>, <<>>, <<>>)

ErrIdle ==
    /\ errIn = Undefined
    /\ errOut = <<>>
    /\ errPc = "off"

MaxFiles == 2
MaxPolls == 2

Items == 1..MaxFiles

PasteFresh ==
    /\ itemIdx = 1
    /\ runtimeId = TRUE
    /\ placeholders = {}
    /\ pasteReq = {}
    /\ pasteRes = [f \in Items |-> "none"]
    /\ polls = [f \in Items |-> 0]
    /\ itemOutcome = [f \in Items |-> "none"]
    /\ pasteBanner = [f \in Items |-> "none"]
    /\ earlyBanner = FALSE
    /\ convertedFiles = {}
    /\ dispatched = FALSE

PasteIdle ==
    /\ numItems = 1
    /\ canUsePlaceholder = FALSE
    /\ pastePc = "off"
    /\ PasteFresh

NumAgents == 2
MaxClock == 3

Agents == 1..NumAgents
Clock == 0..MaxClock

IdIdle ==
    /\ clockMs = 0
    /\ agentPc = [a \in Agents |-> "off"]
    /\ agentId = [a \in Agents |-> -1]
    /\ idRequest = [t \in Clock |-> 0]

QueueIdle ==
    /\ queuedLog = <<>>
    /\ startedLog = <<>>
    /\ finishedCount = 0

NumCallers == 3

Callers == 1..NumCallers

SetupIdle ==
    /\ setupPc = [c \in Callers |-> "off"]
    /\ creatingPromise = "null"
    /\ browserCalls = <<>>
    /\ browserReplies = <<>>
    /\ docState = "none"
    /\ createCalls = 0

SandboxIdle ==
    /\ setupCount = 0
    /\ readyHandlers = {}
    /\ readyTimers = <<>>
    /\ resolvedSetups = {}
    /\ readyMsgs = 0

ChannelIdle ==
    /\ bgInbox = {}
    /\ offInbox = {}
    /\ bgStarted = {}
    /\ offQueued = {}
    /\ sentMsgs = {}

MirrorIdle ==
    /\ mirrorPc = [r \in Ids |-> "off"]
    /\ mirrorBulk = {}
    /\ mirrorResult = [r \in Ids |-> "none"]
    /\ mirrorSignal = [r \in Ids |-> "none"]
    /\ mirroredOk = [r \in Ids |-> FALSE]
    /\ mirrorPage = [r \in Ids |-> "waiting"]

NumHandlers == 2
Handlers == 1..NumHandlers

OverlapIdle ==
    /\ olValue = <<>>
    /\ olStart = 0
    /\ olEnd = 0
    /\ olPc = [h \in Handlers |-> "off"]
    /\ olPos = [h \in Handlers |-> -1]
    /\ olOutcome = [h \in Handlers |-> "none"]
    /\ olRemovals = [h \in Handlers |-> 0]

EventIdle ==
    /\ evLog = <<>>
    /\ evPc = "off"
    /\ evRuntime = TRUE
    /\ evTextarea = FALSE
    /\ evHeic = <<>>
    /\ evConverted = <<>>

MoreIdle ==
    /\ QueueIdle
    /\ SetupIdle
    /\ SandboxIdle
    /\ ChannelIdle
    /\ MirrorIdle
    /\ OverlapIdle
    /\ EventIdle

ExtraIdle ==
    /\ StoreIdle
    /\ ErrIdle
    /\ PasteIdle
    /\ IdIdle
    /\ MoreIdle

Init ==
    /\ files \in {f \in [Ids -> Files \cup {OtherFile}] :
                    /\ f[1] \in Files
                    /\ \A r \in Ids : r > 1 => f[r] = OtherFile}
    /\ PipeIdle
    /\ PollIdle
    /\ PlaceholderIdle
    /\ ExtraIdle

\* variant: a banner for a lost context only
CatchBannerMutant(kind) == IF kind = "invalidated" THEN "refresh" ELSE "none"

\* the catch of handleDataTransfer: the "please refresh" banner for a lost context,
\* the "Failed to convert" banner for every other error
CatchBanner(kind) == IF kind = "invalidated" THEN "refresh" ELSE "failed"

(***************************************************************************)
(* Page Agent: handleDataTransfer for one file, and waitForResult.         *)
(* A notification is delivered at once or stays in flight; a message       *)
(* posted between the Relay Host and the Converter Cell is handled in the  *)
(* step that posts it (nothing else can act on the cell in between).       *)
(***************************************************************************)
\* await storage.local.set({ request_<id>: { data, fileName } }); sendMessage({ CONVERT_HEIC, requestId })
PageSubmit(r) ==
    /\ pagePc[r] = "idle"
    /\ sigReq' = [sigReq EXCEPT ![r] = RequestRecord(files[r])]
    /\ bgMsgs' = bgMsgs \cup {r}
    /\ pagePc' = [pagePc EXCEPT ![r] = "polling"]
    /\ UNCHANGED <<files, pageResult, banner, sigRes, bulkReq, bulkRes>>
    /\ UNCHANGED <<dispPc, offscreen, creating, teardowns>>
    /\ UNCHANGED <<relayVars, cellVars, histVars, pollVars, phVars, extraVars>>

\* checkResult: data[resultKey] is set -> resolve; then
\* if (result && result.data) { ...; storage.local.remove([request, result]) } else throw -> banner
PagePollFound(r) ==
    /\ pagePc[r] = "polling"
    /\ sigRes[r].present
    /\ pageResult' = [pageResult EXCEPT ![r] = sigRes[r]]
    /\ IF sigRes[r].data # <<>>
       THEN /\ sigReq' = [sigReq EXCEPT ![r] = NoRecord]
            /\ sigRes' = [sigRes EXCEPT ![r] = NoRecord]
            /\ pagePc' = [pagePc EXCEPT ![r] = "success"]
            /\ UNCHANGED banner
       ELSE /\ pagePc' = [pagePc EXCEPT ![r] = "failure"]
            /\ banner' = [banner EXCEPT ![r] = CatchBanner("failure")]
            /\ UNCHANGED <<sigReq, sigRes>>
    /\ UNCHANGED <<files, bulkReq, bulkRes>>
    /\ UNCHANGED <<dispVars, relayVars, cellVars, histVars, pollVars, phVars, extraVars>>

\* checkResult: no result and Date.now() - startTime > timeout -> reject; the catch shows the banner
PageTimeout(r) ==
    /\ pagePc[r] = "polling"
    /\ ~sigRes[r].present
    /\ pagePc' = [pagePc EXCEPT ![r] = "timeout"]
    /\ banner' = [banner EXCEPT ![r] = CatchBanner("timeout")]
    /\ UNCHANGED <<files, pageResult, storeVars>>
    /\ UNCHANGED <<dispVars, relayVars, cellVars, histVars, pollVars, phVars, extraVars>>

\* the page navigates away while the poll is waiting
PageAbandon(r) ==
    /\ pagePc[r] = "polling"
    /\ pagePc' = [pagePc EXCEPT ![r] = "abandoned"]
    /\ UNCHANGED <<files, pageResult, banner, storeVars>>
    /\ UNCHANGED <<dispVars, relayVars, cellVars, histVars, pollVars, phVars, extraVars>>

(***************************************************************************)
(* Dispatcher: onMessage listener, cleanupAllData, performConversion,      *)
(* setupOffscreenDocument                                                  *)
(***************************************************************************)
DispRunning(r) == dispPc[r] \notin {"none", "done", "failed", "dead"}

\* the listener starts performConversion, which runs up to storage.local.get(null)
BgReceive(r) ==
    /\ r \in bgMsgs
    /\ ~DispRunning(r)
    /\ bgMsgs' = bgMsgs \ {r}
    /\ dispPc' = [dispPc EXCEPT ![r] = "sweep"]
    /\ invocations' = [invocations EXCEPT ![r] = @ + 1]
    /\ UNCHANGED <<offscreen, creating, teardowns>>
    /\ UNCHANGED <<activeLoops, inFlight, cellReceived, cellReplied, cellDropped>>
    /\ UNCHANGED <<storeVars, pageVars, relayVars, cellVars, pollVars, phVars, extraVars>>

SignalKeys ==
    {<<"request", q>> : q \in {q \in Ids : sigReq[q].present}}
        \cup {<<"result", q>> : q \in {q \in Ids : sigRes[q].present}}

\* Object.keys(allData).filter(key => key !== currentKey && (request_ | result_ | convert_))
KeysToRemove(r) == {k \in SignalKeys : k # <<"request", r>>}

\* allData = await storage.local.get(null); await storage.local.remove(keysToRemove)
DispSweepSignal(r) ==
    /\ dispPc[r] = "sweep"
    /\ sigReq' = [q \in Ids |-> IF <<"request", q>> \in KeysToRemove(r) THEN NoRecord ELSE sigReq[q]]
    /\ sigRes' = [q \in Ids |-> IF <<"result", q>> \in KeysToRemove(r) THEN NoRecord ELSE sigRes[q]]
    /\ dispPc' = [dispPc EXCEPT ![r] = "clear"]
    /\ UNCHANGED <<bgMsgs, offscreen, creating, teardowns, bulkReq, bulkRes>>
    /\ UNCHANGED <<pageVars, relayVars, cellVars, histVars, pollVars, phVars, extraVars>>

\* variant: the sweep leaves the object store as it is
ClearAllImagesMutant(store) == store

\* db.js clearAllImages: store.clear() on the one object store
ClearAllImages(store) == [q \in Ids |-> NoRecord]

\* await clearAllImages()
DispSweepClear(r) ==
    /\ dispPc[r] = "clear"
    /\ bulkReq' = ClearAllImages(bulkReq)
    /\ bulkRes' = ClearAllImages(bulkRes)
    /\ dispPc' = [dispPc EXCEPT ![r] = "read"]
    /\ UNCHANGED <<bgMsgs, offscreen, creating, teardowns, sigReq, sigRes>>
    /\ UNCHANGED <<pageVars, relayVars, cellVars, histVars, pollVars, phVars, extraVars>>

\* variant: the copy goes on without the request
RequestFoundMutant(requestData) == TRUE

\* if (!requestData) throw new Error(`No data found for request ${requestId}`)
RequestFound(requestData) == requestData.present

\* storedData = await storage.local.get(requestKey); missing -> throw, and the listener's
\* catch stores { error } under result_<id>; else await saveImage(requestKey, requestData)
DispCopy(r) ==
    /\ dispPc[r] = "read"
    /\ IF RequestFound(sigReq[r])
       THEN /\ bulkReq' = [bulkReq EXCEPT ![r] = sigReq[r]]
            /\ dispPc' = [dispPc EXCEPT ![r] = "setup"]
            /\ UNCHANGED sigRes
       ELSE /\ sigRes' = [sigRes EXCEPT ![r] = DispatcherErrorRecord(NoDataFound)]
            /\ dispPc' = [dispPc EXCEPT ![r] = "failed"]
            /\ UNCHANGED bulkReq
    /\ UNCHANGED <<bgMsgs, offscreen, creating, teardowns, sigReq, bulkRes>>
    /\ UNCHANGED <<pageVars, relayVars, cellVars, histVars, pollVars, phVars, extraVars>>

\* setupOffscreenDocument: getContexts, then the creating guard
DispSetupCheck(r) ==
    /\ dispPc[r] = "setup"
    /\ IF offscreen
       THEN /\ dispPc' = [dispPc EXCEPT ![r] = "wait"]
            /\ UNCHANGED creating
       ELSE IF creating
            THEN /\ dispPc' = [dispPc EXCEPT ![r] = "awaitCreating"]
                 /\ UNCHANGED creating
            ELSE /\ dispPc' = [dispPc EXCEPT ![r] = "createOwner"]
                 /\ creating' = TRUE
    /\ UNCHANGED <<bgMsgs, offscreen, teardowns>>
    /\ UNCHANGED <<storeVars, pageVars, relayVars, cellVars, histVars, pollVars, phVars, extraVars>>

\* creating = chrome.offscreen.createDocument(...); await creating; creating = null
DispCreateDone(r) ==
    /\ dispPc[r] = "createOwner"
    /\ offscreen' = TRUE
    /\ creating' = FALSE
    /\ dispPc' = [dispPc EXCEPT ![r] = "wait"]
    /\ UNCHANGED <<bgMsgs, teardowns>>
    /\ UNCHANGED <<storeVars, pageVars, relayVars, cellVars, histVars, pollVars, phVars, extraVars>>

\* the promise in `creating` was rejected: it is still there (creating = null is not
\* reached) and nobody is creating
CreationRejected == creating /\ \A q \in Ids : dispPc[q] # "createOwner"

\* await creating throws in the invocation that called createDocument; the listener's catch
\* stores { error } under result_<id>; `creating` keeps the rejected promise
DispCreateFail(r) ==
    /\ dispPc[r] = "createOwner"
    /\ sigRes' = [sigRes EXCEPT ![r] = DispatcherErrorRecord(CreationFailed)]
    /\ dispPc' = [dispPc EXCEPT ![r] = "failed"]
    /\ UNCHANGED <<bgMsgs, offscreen, creating, teardowns, sigReq, bulkReq, bulkRes>>
    /\ UNCHANGED <<pageVars, relayVars, cellVars, histVars, pollVars, phVars, extraVars>>

\* if (creating) await creating, on the rejected promise: the same throw and catch
DispAwaitRejected(r) ==
    /\ dispPc[r] = "awaitCreating"
    /\ CreationRejected
    /\ sigRes' = [sigRes EXCEPT ![r] = DispatcherErrorRecord(CreationFailed)]
    /\ dispPc' = [dispPc EXCEPT ![r] = "failed"]
    /\ UNCHANGED <<bgMsgs, offscreen, creating, teardowns, sigReq, bulkReq, bulkRes>>
    /\ UNCHANGED <<pageVars, relayVars, cellVars, histVars, pollVars, phVars, extraVars>>

\* if (creating) await creating
DispCreateAwaited(r) ==
    /\ dispPc[r] = "awaitCreating"
    /\ offscreen
    /\ dispPc' = [dispPc EXCEPT ![r] = "wait"]
    /\ UNCHANGED <<bgMsgs, offscreen, creating, teardowns>>
    /\ UNCHANGED <<storeVars, pageVars, relayVars, cellVars, histVars, pollVars, phVars, extraVars>>

\* after the 500 ms wait: sendMessage({ target: 'offscreen', action, requestId }), first getImage
DispNotify(r) ==
    /\ dispPc[r] = "wait"
    /\ offMsgs' = Append(offMsgs, r)
    /\ dispPc' = [dispPc EXCEPT ![r] = "poll"]
    /\ UNCHANGED <<bgMsgs, offscreen, creating, teardowns>>
    /\ UNCHANGED <<conversionQueue, isProcessing, rhPc, rhCur, rhData, rhOut,
                   sandboxFrame, sandboxReady, pendingRequests>>
    /\ UNCHANGED <<storeVars, pageVars, cellVars, histVars, pollVars, phVars, extraVars>>

\* variant: the poll takes whatever getImage returns for a result
ResultFoundMutant(resultData) == TRUE

\* const resultData = await getImage(resultKey); if (resultData) ...
ResultFound(resultData) == resultData.present

\* resultData = await getImage(resultKey); if (resultData) await storage.local.set({ [resultKey]: resultData })
DispMirror(r) ==
    /\ dispPc[r] = "poll"
    /\ ResultFound(bulkRes[r])
    /\ sigRes' = [sigRes EXCEPT ![r] = bulkRes[r]]
    /\ dispPc' = [dispPc EXCEPT ![r] = "cleanup"]
    /\ UNCHANGED <<bgMsgs, offscreen, creating, teardowns, sigReq, bulkReq, bulkRes>>
    /\ UNCHANGED <<pageVars, relayVars, cellVars, histVars, pollVars, phVars, extraVars>>

\* the while loop ends on the clock alone, whatever the bulk tier holds by then:
\* throw new Error('Conversion timeout'); the listener's catch stores { error }
DispPollTimeout(r) ==
    /\ dispPc[r] = "poll"
    /\ sigRes' = [sigRes EXCEPT ![r] = DispatcherErrorRecord(ConversionTimeout)]
    /\ dispPc' = [dispPc EXCEPT ![r] = "failed"]
    /\ UNCHANGED <<bgMsgs, offscreen, creating, teardowns, sigReq, bulkReq, bulkRes>>
    /\ UNCHANGED <<pageVars, relayVars, cellVars, histVars, pollVars, phVars, extraVars>>

\* variant: the records stay after the mirror
DeleteRecordMutant(store, r) == store

\* await deleteImage(key) on the record of request r
DeleteRecord(store, r) == [store EXCEPT ![r] = NoRecord]

\* await deleteImage(requestKey); await deleteImage(resultKey); return
DispCleanup(r) ==
    /\ dispPc[r] = "cleanup"
    /\ bulkReq' = DeleteRecord(bulkReq, r)
    /\ bulkRes' = DeleteRecord(bulkRes, r)
    /\ dispPc' = [dispPc EXCEPT ![r] = "done"]
    /\ UNCHANGED <<bgMsgs, offscreen, creating, teardowns, sigReq, sigRes>>
    /\ UNCHANGED <<pageVars, relayVars, cellVars, histVars, pollVars, phVars, extraVars>>

(***************************************************************************)
(* Relay Host: queueConversion, processQueue, processConversion,           *)
(* setupSandbox, resetSandbox and the window message listener              *)
(***************************************************************************)
\* variant: processQueue without its guard
AlreadyProcessingMutant == FALSE

\* processQueue: if (isProcessing) return
AlreadyProcessing == isProcessing

\* sandboxFrame.contentWindow.postMessage({ action: 'CONVERT_HEIC', requestId, base64Data, fileName })
ConvertMessage(r, data) ==
    [requestId |-> r, base64Data |-> data.data, fileName |-> data.fileName]

\* sandbox.js: if (isConverting) { ...ignoring duplicate request...; return }
BusyDrops == isConverting

\* pendingRequests.set(requestId, resolve); arm the timer; post to the frame.
\* A frame whose script has not run yet has no listener: the message is lost.
\* A loaded cell receives it: it ignores it when busy, else isConverting = true.
PostToCell(r, data, loaded) ==
    /\ pendingRequests' = pendingRequests \cup {r}
    /\ inFlight' = inFlight + 1
    /\ rhPc' = "await"
    /\ IF loaded
       THEN /\ cellReceived' = [cellReceived EXCEPT ![r] = @ + 1]
            /\ IF BusyDrops
               THEN /\ cellDropped' = [cellDropped EXCEPT ![r] = @ + 1]
                    /\ UNCHANGED <<isConverting, cellCur>>
               ELSE /\ isConverting' = TRUE
                    /\ cellCur' = ConvertMessage(r, data)
                    /\ UNCHANGED cellDropped
       ELSE UNCHANGED <<cellReceived, cellDropped, isConverting, cellCur>>

\* the chrome.runtime.onMessage listener: queueConversion(requestId), which calls
\* processQueue; a loop that starts runs up to its first getImage
OffReceive ==
    /\ offMsgs # <<>>
    /\ offMsgs' = Tail(offMsgs)
    /\ LET queued == Append(conversionQueue, Head(offMsgs))
       IN IF AlreadyProcessing
          THEN /\ conversionQueue' = queued
               /\ UNCHANGED <<isProcessing, rhPc, rhCur, rhData, rhOut, activeLoops>>
          ELSE /\ isProcessing' = TRUE
               /\ rhCur' = Head(queued)
               /\ conversionQueue' = Tail(queued)
               /\ rhPc' = "get"
               /\ rhData' = NoRecord
               /\ rhOut' = NoRecord
               /\ activeLoops' = activeLoops + 1
    /\ UNCHANGED <<sandboxFrame, sandboxReady, pendingRequests>>
    /\ UNCHANGED <<inFlight, cellReceived, cellReplied, cellDropped, invocations>>
    /\ UNCHANGED <<storeVars, pageVars, dispVars, cellVars, pollVars, phVars, extraVars>>

\* setupSandbox: if (sandboxFrame && sandboxReady) { resolve(); return }
CellReusable == sandboxFrame /\ sandboxReady

\* const data = await getImage(requestKey); missing -> throw (caught by processQueue);
\* otherwise setupSandbox(): reuse a ready frame, or (reset and) build a new one
RhGetDone ==
    /\ rhPc = "get"
    /\ LET data == bulkReq[rhCur]
       IN IF ~data.present \/ data.data = <<>>
          THEN /\ rhOut' = RelayErrorRecord(NoImageData)
               /\ rhPc' = "saveErr"
               /\ UNCHANGED <<rhData, sandboxFrame, sandboxReady, pendingRequests>>
               /\ UNCHANGED <<cellVars, inFlight, cellReceived, cellDropped>>
          ELSE /\ rhData' = data
               /\ UNCHANGED rhOut
               /\ IF CellReusable
                  THEN /\ PostToCell(rhCur, data, cellLoaded)
                       /\ UNCHANGED <<sandboxFrame, sandboxReady, cellLoaded>>
                  ELSE /\ sandboxFrame' = TRUE
                       /\ sandboxReady' = FALSE
                       /\ cellLoaded' = FALSE
                       /\ isConverting' = FALSE
                       /\ cellCur' = NoMessage
                       /\ rhPc' = "setup"
                       /\ UNCHANGED <<pendingRequests, inFlight, cellReceived, cellDropped>>
    /\ UNCHANGED <<offMsgs, conversionQueue, isProcessing, rhCur>>
    /\ UNCHANGED <<activeLoops, cellReplied, invocations>>
    /\ UNCHANGED <<storeVars, pageVars, dispVars, pollVars, phVars, extraVars>>

\* the 3 s fallback: if (!sandboxReady) { sandboxReady = true; resolve() }
RhHandshakeTimeout ==
    /\ rhPc = "setup"
    /\ ~sandboxReady
    /\ sandboxReady' = TRUE
    /\ PostToCell(rhCur, rhData, cellLoaded)
    /\ UNCHANGED <<offMsgs, conversionQueue, isProcessing, rhCur, rhData, rhOut, sandboxFrame>>
    /\ UNCHANGED <<cellLoaded, activeLoops, cellReplied, invocations>>
    /\ UNCHANGED <<storeVars, pageVars, dispVars, pollVars, phVars, extraVars>>

\* the per-item timer: the entry is still pending -> delete it and reject
RhTimeout ==
    /\ rhPc = "await"
    /\ rhCur \in pendingRequests
    /\ pendingRequests' = pendingRequests \ {rhCur}
    /\ rhOut' = RelayErrorRecord(SandboxTimeout)
    /\ rhPc' = "saveErr"
    /\ UNCHANGED <<offMsgs, conversionQueue, isProcessing, rhCur, rhData, sandboxFrame, sandboxReady>>
    /\ UNCHANGED <<cellVars, histVars>>
    /\ UNCHANGED <<storeVars, pageVars, dispVars, pollVars, phVars, extraVars>>

\* await saveImage(resultKey, ...) returns; the while loop takes the next id or ends
RhSaved ==
    /\ rhPc \in {"saveOk", "saveErr"}
    /\ bulkRes' = [bulkRes EXCEPT ![rhCur] = rhOut]
    /\ inFlight' = IF rhData.present THEN inFlight - 1 ELSE inFlight
    /\ rhData' = NoRecord
    /\ rhOut' = NoRecord
    /\ IF conversionQueue # <<>>
       THEN /\ rhCur' = Head(conversionQueue)
            /\ conversionQueue' = Tail(conversionQueue)
            /\ rhPc' = "get"
            /\ UNCHANGED <<isProcessing, activeLoops>>
       ELSE /\ isProcessing' = FALSE
            /\ activeLoops' = activeLoops - 1
            /\ rhCur' = 0
            /\ rhPc' = "idle"
            /\ UNCHANGED conversionQueue
    /\ UNCHANGED <<offMsgs, sandboxFrame, sandboxReady, pendingRequests>>
    /\ UNCHANGED <<cellReceived, cellReplied, cellDropped, invocations>>
    /\ UNCHANGED <<sigReq, sigRes, bulkReq>>
    /\ UNCHANGED <<pageVars, dispVars, cellVars, pollVars, phVars, extraVars>>

(***************************************************************************)
(* Converter Cell: sandbox.js, and the Relay Host's handlers of what it    *)
(* posts back                                                              *)
(***************************************************************************)
\* the iframe's script runs: the listener is registered and SANDBOX_READY is posted;
\* readyHandler: sandboxReady = true; resolve()
CellLoad ==
    /\ sandboxFrame
    /\ ~cellLoaded
    /\ cellLoaded' = TRUE
    /\ sandboxReady' = TRUE
    /\ IF rhPc = "setup"
       THEN PostToCell(rhCur, rhData, TRUE)
       ELSE UNCHANGED <<pendingRequests, inFlight, rhPc, cellReceived, cellDropped,
                        isConverting, cellCur>>
    /\ UNCHANGED <<offMsgs, conversionQueue, isProcessing, rhCur, rhData, rhOut, sandboxFrame>>
    /\ UNCHANGED <<activeLoops, cellReplied, invocations>>
    /\ UNCHANGED <<storeVars, pageVars, dispVars, pollVars, phVars, extraVars>>

SuccessReply(msg) ==
    [requestId |-> msg.requestId, success |-> TRUE,
     data |-> DataUri(Heic2Any(BlobOf(msg.base64Data))),
     fileName |-> ReplaceHeic(msg.fileName), error |-> <<>>]

FailureReply(msg, errorMsg) ==
    [requestId |-> msg.requestId, success |-> FALSE,
     data |-> <<>>, fileName |-> <<>>, error |-> DetailedError(errorMsg)]

\* the try / catch of the listener: one CONVERT_RESULT for the accepted message
CellReply(msg, outcome) ==
    IF BlobOf(msg.base64Data) = ""
    THEN FailureReply(msg, EmptyBlob)
    ELSE CASE outcome = "ok" -> SuccessReply(msg)
           [] outcome = "throw" -> FailureReply(msg, DecodeError)
           [] OTHER -> FailureReply(msg, EngineTimedOut)

\* result.error || '[Offscreen Step 3] Conversion failed in sandbox (unknown error)'
FailureMessage(reply) ==
    IF reply.error # <<>> THEN reply.error ELSE <<"[Offscreen Step 3] Conversion failed in sandbox">>

\* what processConversion, or the catch of processQueue, hands to saveImage for a reply
ResultRecordFor(reply) ==
    IF reply.success
    THEN SuccessRecord(reply.data, reply.fileName)
    ELSE RelayErrorRecord(FailureMessage(reply))

\* variant: the cell is kept after a failure reply
ResetOnFailureMutant(reply) == FALSE

\* if (!result.success) resetSandbox()
ResetOnFailure(reply) == ~reply.success

\* variant: the catch block posts nothing
RepliesOnMutant(reply) == reply.success

\* both the try block and the catch block end in event.source.postMessage(CONVERT_RESULT)
RepliesOn(reply) == TRUE

\* variant: the reply resolves whatever entry is pending
PendingResolveMutant(requestId, pending) == pending # {}

\* const pendingResolve = pendingRequests.get(requestId); if (pendingResolve) ...
PendingResolve(requestId, pending) == requestId \in pending

\* event.source.postMessage({ action: 'CONVERT_RESULT', ... }); finally isConverting = false.
\* The Relay Host's listener resolves the pending entry of the reply's requestId, if any,
\* and processConversion continues up to saveImage.
CellFinish(outcome) ==
    /\ isConverting
    /\ LET reply == CellReply(cellCur, outcome)
           handled == RepliesOn(reply) /\ PendingResolve(reply.requestId, pendingRequests)
       IN /\ cellReplied' = IF RepliesOn(reply)
                             THEN [cellReplied EXCEPT ![cellCur.requestId] = @ + 1]
                             ELSE cellReplied
          /\ IF handled
             THEN /\ pendingRequests' = pendingRequests \ {reply.requestId}
                  /\ rhOut' = ResultRecordFor(reply)
                  /\ rhPc' = IF reply.success THEN "saveOk" ELSE "saveErr"
                  /\ IF ResetOnFailure(reply)
                     THEN /\ sandboxFrame' = FALSE
                          /\ sandboxReady' = FALSE
                          /\ cellLoaded' = FALSE
                     ELSE UNCHANGED <<sandboxFrame, sandboxReady, cellLoaded>>
             ELSE UNCHANGED <<pendingRequests, rhOut, rhPc, sandboxFrame, sandboxReady,
                              cellLoaded>>
    /\ isConverting' = FALSE
    /\ cellCur' = NoMessage
    /\ UNCHANGED <<offMsgs, conversionQueue, isProcessing, rhCur, rhData>>
    /\ UNCHANGED <<activeLoops, inFlight, cellReceived, cellDropped, invocations>>
    /\ UNCHANGED <<storeVars, pageVars, dispVars, pollVars, phVars, extraVars>>

(***************************************************************************)
(* The pipeline                                                            *)
(***************************************************************************)
PageStep ==
    \E r \in Ids :
        \/ PageSubmit(r)
        \/ PagePollFound(r)
        \/ PageTimeout(r)
        \/ PageAbandon(r)

DispatcherStep ==
    \E r \in Ids :
        \/ BgReceive(r)
        \/ DispSweepSignal(r)
        \/ DispSweepClear(r)
        \/ DispCopy(r)
        \/ DispSetupCheck(r)
        \/ DispCreateDone(r)
        \/ DispCreateFail(r)
        \/ DispCreateAwaited(r)
        \/ DispAwaitRejected(r)
        \/ DispNotify(r)
        \/ DispMirror(r)
        \/ DispPollTimeout(r)
        \/ DispCleanup(r)

RelayStep ==
    \/ OffReceive
    \/ RhGetDone
    \/ RhHandshakeTimeout
    \/ RhTimeout
    \/ RhSaved

CellStep ==
    \/ CellLoad
    \/ \E outcome \in EngineOutcomes : CellFinish(outcome)

Next ==
    \/ PageStep
    \/ DispatcherStep
    \/ RelayStep
    \/ CellStep

Spec == Init /\ [][Next]_vars

(***************************************************************************)
(* Restart of the service worker: one paste, the worker is torn down while *)
(* performConversion runs, and the notification is delivered again.        *)
(***************************************************************************)
RestartIds == {1}

\* The worker's globals are lost with it: every running performConversion stops where it
\* is and `creating` is null again in the next worker.  A createDocument call already
\* handed to the browser still produces the offscreen document.
Teardown ==
    /\ teardowns < MaxTeardowns
    /\ \E r \in RestartIds : DispRunning(r)
    /\ teardowns' = teardowns + 1
    /\ dispPc' = [r \in Ids |-> IF DispRunning(r) THEN "dead" ELSE dispPc[r]]
    /\ offscreen' = (offscreen \/ \E r \in Ids : dispPc[r] = "createOwner")
    /\ creating' = FALSE
    /\ UNCHANGED bgMsgs
    /\ UNCHANGED <<storeVars, pageVars, relayVars, cellVars, histVars, pollVars, phVars, extraVars>>

\* { target: 'background', action: 'CONVERT_HEIC', requestId } arrives once more
ReNotify(r) ==
    /\ dispPc[r] = "dead"
    /\ r \notin bgMsgs
    /\ bgMsgs' = bgMsgs \cup {r}
    /\ UNCHANGED <<dispPc, offscreen, creating, teardowns>>
    /\ UNCHANGED <<storeVars, pageVars, relayVars, cellVars, histVars, pollVars, phVars, extraVars>>

\* a single paste never meets another invocation inside createDocument
RestartDispatcherOf(r) ==
    \/ BgReceive(r)
    \/ DispSweepSignal(r)
    \/ DispSweepClear(r)
    \/ DispCopy(r)
    \/ DispSetupCheck(r)
    \/ DispCreateDone(r)
    \/ DispNotify(r)
    \/ DispMirror(r)
    \/ DispPollTimeout(r)
    \/ DispCleanup(r)

RestartPageOf(r) ==
    \/ PageSubmit(r)
    \/ PagePollFound(r)
    \/ PageTimeout(r)
    \/ PageAbandon(r)

RestartNext ==
    \/ \E r \in RestartIds : RestartPageOf(r)
    \/ \E r \in RestartIds : RestartDispatcherOf(r)
    \/ RelayStep
    \/ CellStep
    \/ Teardown
    \/ \E r \in RestartIds : ReNotify(r)

RestartSpec == Init /\ [][RestartNext]_vars

\* Handlers that are ready run and armed timers fire; the page and the teardown are free.
RestartFairSpec ==
    /\ RestartSpec
    /\ \A r \in RestartIds : WF_vars(RestartDispatcherOf(r))
    /\ WF_vars(RelayStep)
    /\ WF_vars(CellStep)

(***************************************************************************)
(* waitForResult against a clock (milliseconds)                            *)
(***************************************************************************)
PageTimeoutMs == 60000
PollIntervalMs == 500

QuietFiles == [r \in Ids |-> OtherFile]

PollInit ==
    /\ files = QuietFiles
    /\ PipeIdle
    /\ PlaceholderIdle
    /\ ExtraIdle
    /\ now = 0
    /\ startTime = 0
    /\ pollPc = "check"
    /\ ctxValid = TRUE
    /\ pollStored = FALSE
    /\ pollBanner = "none"

\* if (Date.now() - startTime > timeout)
TimedOut(elapsed) == elapsed > PageTimeoutMs

\* checkResult, up to the storage read: if (!chrome?.runtime?.id) reject(...)
PollCheck ==
    /\ pollPc = "check"
    /\ IF ctxValid
       THEN /\ pollPc' = "get"
            /\ UNCHANGED pollBanner
       ELSE /\ pollPc' = "invalidated"
            /\ pollBanner' = CatchBanner("invalidated")
    /\ UNCHANGED <<now, startTime, ctxValid, pollStored>>
    /\ UNCHANGED <<pipeVars, phVars, extraVars>>

\* await chrome.storage.local.get(resultKey) returns after d ms; resolve, reject or re-arm
PollGet(d) ==
    /\ pollPc = "get"
    /\ now' = now + d
    /\ IF ~ctxValid
       THEN /\ pollPc' = "invalidated"
            /\ pollBanner' = CatchBanner("invalidated")
       ELSE IF pollStored
            THEN /\ pollPc' = "resolved"
                 /\ UNCHANGED pollBanner
            ELSE IF TimedOut(now' - startTime)
                 THEN /\ pollPc' = "timeout"
                      /\ pollBanner' = CatchBanner("timeout")
                 ELSE /\ pollPc' = "sleep"
                      /\ UNCHANGED pollBanner
    /\ UNCHANGED <<startTime, ctxValid, pollStored>>
    /\ UNCHANGED <<pipeVars, phVars, extraVars>>

\* setTimeout(checkResult, 500)
PollWake ==
    /\ pollPc = "sleep"
    /\ now' = now + PollIntervalMs
    /\ pollPc' = "check"
    /\ UNCHANGED <<startTime, ctxValid, pollStored, pollBanner>>
    /\ UNCHANGED <<pipeVars, phVars, extraVars>>

PollWaiting == pollPc \in {"check", "get", "sleep"}

\* the Dispatcher writes result_<id> to storage.local
ResultStored ==
    /\ PollWaiting
    /\ ~pollStored
    /\ pollStored' = TRUE
    /\ UNCHANGED <<now, startTime, pollPc, ctxValid, pollBanner>>
    /\ UNCHANGED <<pipeVars, phVars, extraVars>>

\* the extension is reloaded or updated under the page
ContextInvalidated ==
    /\ PollWaiting
    /\ ctxValid
    /\ ctxValid' = FALSE
    /\ UNCHANGED <<now, startTime, pollPc, pollStored, pollBanner>>
    /\ UNCHANGED <<pipeVars, phVars, extraVars>>

PollStep ==
    \/ PollCheck
    \/ \E d \in 0..MaxGetLatency : PollGet(d)
    \/ PollWake

PollNext ==
    \/ PollStep
    \/ ResultStored
    \/ ContextInvalidated

PollSpec == PollInit /\ [][PollNext]_vars

PollFairSpec == PollSpec /\ WF_vars(PollStep)

(***************************************************************************)
(* insertPlaceholder / removePlaceholder on a textarea                     *)
(***************************************************************************)
Alphabet == {"a", "b"}

RECURSIVE StringsUpTo(_)
StringsUpTo(n) ==
    IF n = 0 THEN {<<>>}
    ELSE LET shorter == StringsUpTo(n - 1)
         IN shorter \cup {Append(s, c) : s \in shorter, c \in Alphabet}

\* String.prototype.substring(from, to) and substring(from), 0-based, to exclusive
Substring(s, from, to) == SubSeq(s, from + 1, to)
SubstringFrom(s, from) == SubSeq(s, from + 1, Len(s))

\* String.prototype.indexOf(needle, from): the first match at or after from, else -1
IndexOf(s, needle, from) ==
    LET hits == {i \in from..(Len(s) - Len(needle)) : Substring(s, i, i + Len(needle)) = needle}
    IN IF hits = {} THEN -1 ELSE CHOOSE i \in hits : \A j \in hits : i <= j

PlaceholderInit ==
    /\ files = QuietFiles
    /\ PipeIdle
    /\ PollIdle
    /\ ExtraIdle
    /\ taValue \in StringsUpTo(MaxTextLen)
    /\ selectionStart \in 0..Len(taValue)
    /\ selectionEnd \in selectionStart..Len(taValue)
    /\ phText \in StringsUpTo(MaxTokenLen) \ {<<>>}
    /\ phPos = -1
    /\ phPc = "start"
    /\ taOriginal = [value |-> taValue, start |-> selectionStart, end |-> selectionEnd]

\* variant: value.indexOf(placeholder)
PlaceholderIndexMutant(value, placeholder, insertPosition) == IndexOf(value, placeholder, 0)

\* variant: value.indexOf(placeholder, insertPosition + 1)
PlaceholderIndexSkipMutant(value, placeholder, insertPosition) ==
    IndexOf(value, placeholder, insertPosition + 1)

\* value.indexOf(placeholder, insertPosition)
PlaceholderIndex(value, placeholder, insertPosition) ==
    IndexOf(value, placeholder, insertPosition)

\* variant: textarea.value.substring(start)
TextAfterMutant(value, start, end) == SubstringFrom(value, start)

\* const after = textarea.value.substring(end)
TextAfter(value, start, end) == SubstringFrom(value, end)

InsertPlaceholder ==
    /\ phPc = "start"
    /\ LET before == Substring(taValue, 0, selectionStart)
           after == TextAfter(taValue, selectionStart, selectionEnd)
       IN /\ taValue' = before \o phText \o after
          /\ selectionStart' = selectionStart + Len(phText)
          /\ selectionEnd' = selectionStart + Len(phText)
          /\ phPos' = selectionStart
    /\ phPc' = "inserted"
    /\ UNCHANGED <<phText, taOriginal>>
    /\ UNCHANGED <<pipeVars, pollVars, extraVars>>

RemovePlaceholder ==
    /\ phPc = "inserted"
    /\ LET placeholderIndex == PlaceholderIndex(taValue, phText, phPos)
       IN IF placeholderIndex # -1
          THEN /\ taValue' = Substring(taValue, 0, placeholderIndex)
                                \o SubstringFrom(taValue, placeholderIndex + Len(phText))
               /\ selectionStart' = placeholderIndex
               /\ selectionEnd' = placeholderIndex
          ELSE UNCHANGED <<taValue, selectionStart, selectionEnd>>
    /\ phPc' = "removed"
    /\ UNCHANGED <<phText, phPos, taOriginal>>
    /\ UNCHANGED <<pipeVars, pollVars, extraVars>>

PlaceholderNext ==
    \/ InsertPlaceholder
    \/ RemovePlaceholder

PlaceholderSpec == PlaceholderInit /\ [][PlaceholderNext]_vars

\* removePlaceholder on a textarea the user went on editing while the conversion ran:
\* any text, any cursor, and a recorded position that may lie beyond the text by now
EditedInit ==
    /\ files = QuietFiles
    /\ PipeIdle
    /\ PollIdle
    /\ ExtraIdle
    /\ taValue \in StringsUpTo(MaxTextLen + 1)
    /\ selectionStart \in 0..Len(taValue)
    /\ selectionEnd \in selectionStart..Len(taValue)
    /\ phText \in StringsUpTo(MaxTokenLen) \ {<<>>}
    /\ phPos \in 0..(MaxTextLen + 1)
    /\ phPc = "inserted"
    /\ taOriginal = [value |-> taValue, start |-> selectionStart, end |-> selectionEnd]

EditedNext == RemovePlaceholder

EditedSpec == EditedInit /\ [][EditedNext]_vars

(***************************************************************************)
(* handleDataTransfer: the file loop of one paste or drop event. The       *)
(* Dispatcher's answer is an outside step that puts result_<id> into       *)
(* storage.local; the textarea is the set of placeholder tokens in it.     *)
(***************************************************************************)
PasteInit ==
    /\ files = QuietFiles
    /\ PipeIdle
    /\ PollIdle
    /\ PlaceholderIdle
    /\ StoreIdle
    /\ ErrIdle
    /\ IdIdle
    /\ MoreIdle
    /\ numItems \in Items
    /\ canUsePlaceholder \in BOOLEAN
    /\ pastePc = "start"
    /\ PasteFresh

PasteOthers == <<pipeVars, pollVars, phVars, dbVars, errVars, idVars, moreVars>>

\* variant: the poll does not look at the handle
HandleValidMutant(id) == TRUE

\* checkResult: if (!chrome?.runtime?.id) reject(...)
HandleValid(id) == id

\* variant: the catch leaves the placeholder in the textarea
RemoveOnErrorMutant(tokens, f) == tokens

\* catch: if (canUsePlaceholder && placeholderPosition !== -1) removePlaceholder(...)
RemoveOnError(tokens, f) == tokens \ {f}

\* for (const item of heicItems): on to the next item, or past the loop
NextItem ==
    /\ itemIdx' = itemIdx + 1
    /\ pastePc' = IF itemIdx + 1 > numItems THEN "dispatch" ELSE "insert"

\* the catch of the loop body: the placeholder goes, the banner is chosen by the error
\* message and by chrome.runtime.id, nothing is written, and the loop goes on
Catch(kind) ==
    LET k == IF kind = "invalidated" \/ ~runtimeId THEN "invalidated" ELSE kind
    IN /\ placeholders' = RemoveOnError(placeholders, itemIdx)
       /\ itemOutcome' = [itemOutcome EXCEPT ![itemIdx] = k]
       /\ pasteBanner' = [pasteBanner EXCEPT ![itemIdx] = CatchBanner(k)]
       /\ NextItem

\* if (!chrome?.runtime?.id) { showErrorBanner(...); return; }
PasteStart ==
    /\ pastePc = "start"
    /\ IF runtimeId
       THEN /\ pastePc' = "insert"
            /\ UNCHANGED earlyBanner
       ELSE /\ pastePc' = "done"
            /\ earlyBanner' = TRUE
    /\ UNCHANGED <<numItems, canUsePlaceholder, itemIdx, runtimeId, placeholders, pasteReq,
                   pasteRes, polls, itemOutcome, pasteBanner, convertedFiles, dispatched>>
    /\ UNCHANGED PasteOthers

\* if (canUsePlaceholder) placeholderPosition = insertPlaceholder(textarea, placeholder)
PasteInsert ==
    /\ pastePc = "insert"
    /\ placeholders' = IF canUsePlaceholder THEN placeholders \cup {itemIdx} ELSE placeholders
    /\ pastePc' = "set"
    /\ UNCHANGED <<numItems, canUsePlaceholder, itemIdx, runtimeId, pasteReq, pasteRes, polls,
                   itemOutcome, pasteBanner, earlyBanner, convertedFiles, dispatched>>
    /\ UNCHANGED PasteOthers

\* await fileToBase64(file); await chrome.storage.local.set({ request_<id>: ... })
PasteSet ==
    /\ pastePc = "set"
    /\ IF runtimeId
       THEN /\ pasteReq' = pasteReq \cup {itemIdx}
            /\ pastePc' = "send"
            /\ UNCHANGED <<itemIdx, placeholders, itemOutcome, pasteBanner>>
       ELSE /\ Catch("storage")
            /\ UNCHANGED pasteReq
    /\ UNCHANGED <<numItems, canUsePlaceholder, runtimeId, pasteRes, polls, earlyBanner,
                   convertedFiles, dispatched>>
    /\ UNCHANGED PasteOthers

\* chrome.runtime.sendMessage({ action: 'CONVERT_HEIC', requestId }); waitForResult(requestId)
PasteSend ==
    /\ pastePc = "send"
    /\ IF runtimeId
       THEN /\ pastePc' = "check"
            /\ UNCHANGED <<itemIdx, placeholders, itemOutcome, pasteBanner>>
       ELSE Catch("storage")
    /\ UNCHANGED <<numItems, canUsePlaceholder, runtimeId, pasteReq, pasteRes, polls,
                   earlyBanner, convertedFiles, dispatched>>
    /\ UNCHANGED PasteOthers

\* checkResult, up to the storage read
PasteCheck ==
    /\ pastePc = "check"
    /\ IF HandleValid(runtimeId)
       THEN /\ pastePc' = "get"
            /\ UNCHANGED <<itemIdx, placeholders, itemOutcome, pasteBanner>>
       ELSE Catch("invalidated")
    /\ UNCHANGED <<numItems, canUsePlaceholder, runtimeId, pasteReq, pasteRes, polls,
                   earlyBanner, convertedFiles, dispatched>>
    /\ UNCHANGED PasteOthers

\* await chrome.storage.local.get(resultKey): it throws on a lost context, else resolve,
\* reject('Conversion timeout') or setTimeout(checkResult, 500)
PasteGet ==
    /\ pastePc = "get"
    /\ polls' = [polls EXCEPT ![itemIdx] = @ + 1]
    /\ IF ~runtimeId
       THEN Catch("invalidated")
       ELSE IF pasteRes[itemIdx] # "none"
            THEN /\ pastePc' = "resolved"
                 /\ UNCHANGED <<itemIdx, placeholders, itemOutcome, pasteBanner>>
            ELSE IF polls'[itemIdx] >= MaxPolls
                 THEN Catch("timeout")
                 ELSE /\ pastePc' = "sleep"
                      /\ UNCHANGED <<itemIdx, placeholders, itemOutcome, pasteBanner>>
    /\ UNCHANGED <<numItems, canUsePlaceholder, runtimeId, pasteReq, pasteRes, earlyBanner,
                   convertedFiles, dispatched>>
    /\ UNCHANGED PasteOthers

\* the 500 ms timer fires
PasteWake ==
    /\ pastePc = "sleep"
    /\ pastePc' = "check"
    /\ UNCHANGED <<numItems, canUsePlaceholder, itemIdx, runtimeId, placeholders, pasteReq,
                   pasteRes, polls, itemOutcome, pasteBanner, earlyBanner, convertedFiles,
                   dispatched>>
    /\ UNCHANGED PasteOthers

\* after waitForResult resolved: removePlaceholder; if (result && result.data) push the file
\* and storage.local.remove([request, result]), a call that is not awaited and on a lost
\* context either throws into the catch or fails unnoticed; else throw into the catch
PasteConsume ==
    /\ pastePc = "resolved"
    /\ IF pasteRes[itemIdx] = "success"
       THEN /\ placeholders' = placeholders \ {itemIdx}
            /\ convertedFiles' = convertedFiles \cup {itemIdx}
            /\ itemOutcome' = [itemOutcome EXCEPT ![itemIdx] = "converted"]
            /\ IF runtimeId
               THEN /\ pasteReq' = pasteReq \ {itemIdx}
                    /\ pasteRes' = [pasteRes EXCEPT ![itemIdx] = "none"]
                    /\ UNCHANGED pasteBanner
               ELSE /\ UNCHANGED <<pasteReq, pasteRes>>
                    /\ \E b \in {"none", CatchBanner("invalidated")} :
                          pasteBanner' = [pasteBanner EXCEPT ![itemIdx] = b]
            /\ NextItem
       ELSE /\ Catch("failure")
            /\ UNCHANGED <<pasteReq, pasteRes, convertedFiles>>
    /\ UNCHANGED <<numItems, canUsePlaceholder, runtimeId, polls, earlyBanner, dispatched>>
    /\ UNCHANGED PasteOthers

\* if (convertedFiles.length > 0) originalEvent.target.dispatchEvent(newEvent)
PasteDispatch ==
    /\ pastePc = "dispatch"
    /\ dispatched' = (convertedFiles # {})
    /\ pastePc' = "done"
    /\ UNCHANGED <<numItems, canUsePlaceholder, itemIdx, runtimeId, placeholders, pasteReq,
                   pasteRes, polls, itemOutcome, pasteBanner, earlyBanner, convertedFiles>>
    /\ UNCHANGED PasteOthers

\* the Dispatcher puts result_<id> into storage.local: a data URI or an error
PasteResult(kind) ==
    /\ pastePc \in {"check", "get", "sleep"}
    /\ runtimeId
    /\ pasteRes[itemIdx] = "none"
    /\ pasteRes' = [pasteRes EXCEPT ![itemIdx] = kind]
    /\ UNCHANGED <<numItems, canUsePlaceholder, pastePc, itemIdx, runtimeId, placeholders,
                   pasteReq, polls, itemOutcome, pasteBanner, earlyBanner, convertedFiles,
                   dispatched>>
    /\ UNCHANGED PasteOthers

\* the extension is reloaded or updated under the page
PasteInvalidate ==
    /\ pastePc \notin {"off", "done"}
    /\ runtimeId
    /\ runtimeId' = FALSE
    /\ UNCHANGED <<numItems, canUsePlaceholder, pastePc, itemIdx, placeholders, pasteReq,
                   pasteRes, polls, itemOutcome, pasteBanner, earlyBanner, convertedFiles,
                   dispatched>>
    /\ UNCHANGED PasteOthers

PasteNext ==
    \/ PasteStart
    \/ PasteInsert
    \/ PasteSet
    \/ PasteSend
    \/ PasteCheck
    \/ PasteGet
    \/ PasteWake
    \/ PasteConsume
    \/ PasteDispatch
    \/ \E kind \in {"success", "failure"} : PasteResult(kind)
    \/ PasteInvalidate

PasteSpec == PasteInit /\ [][PasteNext]_vars

(***************************************************************************)
(* requestId = Date.now().toString(): Page Agents (tabs, or overlapping     *)
(* events of one tab) that each take an id from the millisecond clock,     *)
(* write request_<id> and later consume the result                         *)
(***************************************************************************)
IdInit ==
    /\ files = QuietFiles
    /\ PipeIdle
    /\ PollIdle
    /\ PlaceholderIdle
    /\ StoreIdle
    /\ ErrIdle
    /\ PasteIdle
    /\ MoreIdle
    /\ clockMs = 0
    /\ agentPc = [a \in Agents |-> "ready"]
    /\ agentId = [a \in Agents |-> -1]
    /\ idRequest = [t \in Clock |-> 0]

IdOthers == <<pipeVars, pollVars, phVars, dbVars, errVars, pasteVars, moreVars>>

\* a millisecond passes
IdTick ==
    /\ clockMs < MaxClock
    /\ clockMs' = clockMs + 1
    /\ UNCHANGED <<agentPc, agentId, idRequest>>
    /\ UNCHANGED IdOthers

\* const requestId = Date.now().toString()
IdSample(a) ==
    /\ agentPc[a] = "ready"
    /\ agentId' = [agentId EXCEPT ![a] = clockMs]
    /\ agentPc' = [agentPc EXCEPT ![a] = "sampled"]
    /\ UNCHANGED <<clockMs, idRequest>>
    /\ UNCHANGED IdOthers

\* await chrome.storage.local.set({ [`request_${requestId}`]: { data, fileName } }); sendMessage
IdWrite(a) ==
    /\ agentPc[a] = "sampled"
    /\ idRequest' = [idRequest EXCEPT ![agentId[a]] = a]
    /\ agentPc' = [agentPc EXCEPT ![a] = "active"]
    /\ UNCHANGED <<clockMs, agentId>>
    /\ UNCHANGED IdOthers

\* waitForResult(requestId) resolved; storage.local.remove([request_<id>, result_<id>])
IdConsume(a) ==
    /\ agentPc[a] = "active"
    /\ idRequest' = [idRequest EXCEPT ![agentId[a]] = 0]
    /\ agentPc' = [agentPc EXCEPT ![a] = "ended"]
    /\ UNCHANGED <<clockMs, agentId>>
    /\ UNCHANGED IdOthers

\* the next file, or the next paste, of the agent
IdAgain(a) ==
    /\ agentPc[a] = "ended"
    /\ agentPc' = [agentPc EXCEPT ![a] = "ready"]
    /\ UNCHANGED <<clockMs, agentId, idRequest>>
    /\ UNCHANGED IdOthers

IdNext ==
    \/ IdTick
    \/ \E a \in Agents :
          \/ IdSample(a)
          \/ IdWrite(a)
          \/ IdConsume(a)
          \/ IdAgain(a)

IdSpec == IdInit /\ [][IdNext]_vars

(***************************************************************************)
(* queueConversion / processQueue with more notifications than the         *)
(* pipeline above carries: processConversion is one step that ends,        *)
(* by its result or by the catch of the loop                               *)
(***************************************************************************)
NumQueued == 3

QueueIds == 1..NumQueued

QueueInit ==
    /\ files = QuietFiles
    /\ PipeIdle
    /\ PollIdle
    /\ PlaceholderIdle
    /\ StoreIdle
    /\ ErrIdle
    /\ PasteIdle
    /\ IdIdle
    /\ EventIdle
    /\ OverlapIdle
    /\ MirrorIdle
    /\ QueueIdle
    /\ SetupIdle
    /\ SandboxIdle
    /\ ChannelIdle

QueueOthers == <<storeVars, pageVars, dispVars, cellVars, histVars, pollVars, phVars,
                 dbVars, errVars, pasteVars, idVars, setupVars, sandboxVars, channelVars,
    mirrorVars,
    overlapVars,
    eventVars>>

\* variant: conversionQueue.pop()
ShiftMutant(queue) == [item |-> queue[Len(queue)], rest |-> SubSeq(queue, 1, Len(queue) - 1)]

\* const requestId = conversionQueue.shift()
Shift(queue) == [item |-> Head(queue), rest |-> Tail(queue)]

\* a Dispatcher invocation: chrome.runtime.sendMessage({ target: 'offscreen', requestId })
QueueSend(r) ==
    /\ r \notin {queuedLog[i] : i \in 1..Len(queuedLog)}
    /\ r \notin {offMsgs[i] : i \in 1..Len(offMsgs)}
    /\ offMsgs' = Append(offMsgs, r)
    /\ UNCHANGED <<conversionQueue, isProcessing, rhPc, rhCur, rhData, rhOut,
                   sandboxFrame, sandboxReady, pendingRequests>>
    /\ UNCHANGED queueVars
    /\ UNCHANGED QueueOthers

\* the listener: queueConversion(requestId) pushes and calls processQueue without await;
\* processQueue returns at once when isProcessing, else runs up to its first await, inside
\* processConversion of the item it shifted
QueueReceive ==
    /\ offMsgs # <<>>
    /\ offMsgs' = Tail(offMsgs)
    /\ queuedLog' = Append(queuedLog, Head(offMsgs))
    /\ LET queued == Append(conversionQueue, Head(offMsgs))
       IN IF AlreadyProcessing
          THEN /\ conversionQueue' = queued
               /\ UNCHANGED <<isProcessing, rhPc, rhCur, startedLog>>
          ELSE /\ isProcessing' = TRUE
               /\ rhCur' = Shift(queued).item
               /\ conversionQueue' = Shift(queued).rest
               /\ rhPc' = "get"
               /\ startedLog' = Append(startedLog, Shift(queued).item)
    /\ UNCHANGED <<rhData, rhOut, sandboxFrame, sandboxReady, pendingRequests, finishedCount>>
    /\ UNCHANGED QueueOthers

\* variant: the loop body runs once
LoopGoesOnMutant(queue) == FALSE

\* while (conversionQueue.length > 0)
LoopGoesOn(queue) == queue # <<>>

\* await processConversion(requestId) ends, or its catch and saveImage do; the while loop
\* shifts the next id, or isProcessing = false
QueueItemDone ==
    /\ rhPc = "get"
    /\ finishedCount' = finishedCount + 1
    /\ IF LoopGoesOn(conversionQueue)
       THEN /\ rhCur' = Shift(conversionQueue).item
            /\ conversionQueue' = Shift(conversionQueue).rest
            /\ startedLog' = Append(startedLog, Shift(conversionQueue).item)
            /\ UNCHANGED <<isProcessing, rhPc>>
       ELSE /\ isProcessing' = FALSE
            /\ rhCur' = 0
            /\ rhPc' = "idle"
            /\ UNCHANGED <<conversionQueue, startedLog>>
    /\ UNCHANGED <<offMsgs, rhData, rhOut, sandboxFrame, sandboxReady, pendingRequests,
                   queuedLog>>
    /\ UNCHANGED QueueOthers

\* processConversion threw and the saveImage of the catch rejects too (db.js: request.onerror
\* or a failed open): the rejection leaves processQueue, the loop is gone and
\* isProcessing = false is never reached
QueueSaveFails ==
    /\ rhPc = "get"
    /\ rhPc' = "dead"
    /\ finishedCount' = finishedCount + 1
    /\ UNCHANGED <<offMsgs, conversionQueue, isProcessing, rhCur, rhData, rhOut,
                   sandboxFrame, sandboxReady, pendingRequests, queuedLog, startedLog>>
    /\ UNCHANGED QueueOthers

QueueNext ==
    \/ \E r \in QueueIds : QueueSend(r)
    \/ QueueReceive
    \/ QueueItemDone
    \/ QueueSaveFails

QueueSpec == QueueInit /\ [][QueueNext]_vars

(***************************************************************************)
(* setupOffscreenDocument, await by await, for several performConversion   *)
(* calls of one service worker. chrome.runtime.getContexts and             *)
(* chrome.offscreen.createDocument are answered by the browser in the      *)
(* order they were called, and the answers reach the worker in the order   *)
(* they were given.                                                        *)
(***************************************************************************)
SetupInit ==
    /\ files = QuietFiles
    /\ PipeIdle
    /\ PollIdle
    /\ PlaceholderIdle
    /\ StoreIdle
    /\ ErrIdle
    /\ PasteIdle
    /\ IdIdle
    /\ EventIdle
    /\ OverlapIdle
    /\ MirrorIdle
    /\ QueueIdle
    /\ SandboxIdle
    /\ ChannelIdle
    /\ setupPc = [c \in Callers |-> "start"]
    /\ creatingPromise = "null"
    /\ browserCalls = <<>>
    /\ browserReplies = <<>>
    /\ docState = "none"
    /\ createCalls = 0

SetupOthers == <<pipeVars, pollVars, phVars, dbVars, errVars, pasteVars, idVars, queueVars,
                 sandboxVars, channelVars,
    mirrorVars,
    overlapVars,
    eventVars>>

\* variant: setupOffscreenDocument without its guard
CreatingMutant(promise) == FALSE

\* if (creating)
Creating(promise) == promise # "null"

\* what getContexts({ contextTypes: ['OFFSCREEN_DOCUMENT'] }) can answer: a document still
\* loading may or may not be listed
ContextsListed == IF docState = "ready" THEN {TRUE}
                  ELSE IF docState = "loading" THEN {TRUE, FALSE} ELSE {FALSE}

\* const existingContexts = await chrome.runtime.getContexts(...): the call
SetupGetContexts(c) ==
    /\ setupPc[c] = "start"
    /\ browserCalls' = Append(browserCalls, [api |-> "getContexts", caller |-> c])
    /\ setupPc' = [setupPc EXCEPT ![c] = "getContexts"]
    /\ UNCHANGED <<creatingPromise, browserReplies, docState, createCalls>>
    /\ UNCHANGED SetupOthers

\* the browser takes the oldest call: it answers getContexts at once; createDocument starts
\* to load the document, or is rejected at once when there is a document already
BrowserTake ==
    /\ browserCalls # <<>>
    /\ browserCalls' = Tail(browserCalls)
    /\ LET call == Head(browserCalls)
       IN IF call.api = "getContexts"
          THEN /\ \E listed \in ContextsListed :
                     browserReplies' = Append(browserReplies,
                         [api |-> "getContexts", caller |-> call.caller, ok |-> listed])
               /\ UNCHANGED docState
          ELSE IF docState = "none"
               THEN /\ docState' = "loading"
                    /\ UNCHANGED browserReplies
               ELSE /\ browserReplies' = Append(browserReplies,
                         [api |-> "createDocument", caller |-> call.caller, ok |-> FALSE])
                    /\ UNCHANGED docState
    /\ UNCHANGED <<setupPc, creatingPromise, createCalls>>
    /\ UNCHANGED SetupOthers

\* the document has loaded, or failed to: the browser answers the createDocument call
BrowserLoaded ==
    /\ docState = "loading"
    /\ \E c \in Callers :
          /\ setupPc[c] = "createOwner"
          /\ \E ok \in BOOLEAN :
                /\ docState' = IF ok THEN "ready" ELSE "none"
                /\ browserReplies' = Append(browserReplies,
                       [api |-> "createDocument", caller |-> c, ok |-> ok])
    /\ UNCHANGED <<setupPc, creatingPromise, browserCalls, createCalls>>
    /\ UNCHANGED SetupOthers

\* the service worker takes the oldest answer and runs the code after the await:
\* after getContexts, return true for a listed document, else await the promise in
\* `creating` or call createDocument; after createDocument, creating = null and return,
\* or the rejection is thrown and `creating` keeps the promise
SetupResume ==
    /\ browserReplies # <<>>
    /\ browserReplies' = Tail(browserReplies)
    /\ LET reply == Head(browserReplies)
           c == reply.caller
       IN IF reply.api = "getContexts"
          THEN IF reply.ok
               THEN /\ setupPc' = [setupPc EXCEPT ![c] = "done"]
                    /\ UNCHANGED <<creatingPromise, browserCalls, createCalls>>
               ELSE IF Creating(creatingPromise)
                    THEN /\ setupPc' = [setupPc EXCEPT ![c] = "awaitCreating"]
                         /\ UNCHANGED <<creatingPromise, browserCalls, createCalls>>
                    ELSE /\ creatingPromise' = "pending"
                         /\ browserCalls' = Append(browserCalls,
                                [api |-> "createDocument", caller |-> c])
                         /\ createCalls' = createCalls + 1
                         /\ setupPc' = [setupPc EXCEPT ![c] = "createOwner"]
          ELSE /\ creatingPromise' = IF reply.ok THEN "null" ELSE "rejected"
               /\ setupPc' = [setupPc EXCEPT ![c] = IF reply.ok THEN "done" ELSE "failed"]
               /\ UNCHANGED <<browserCalls, createCalls>>
    /\ UNCHANGED docState
    /\ UNCHANGED SetupOthers

\* if (creating) await creating: the promise is settled
SetupAwaited(c) ==
    /\ setupPc[c] = "awaitCreating"
    /\ creatingPromise # "pending"
    /\ setupPc' = [setupPc EXCEPT ![c] = IF creatingPromise = "rejected" THEN "failed" ELSE "done"]
    /\ UNCHANGED <<creatingPromise, browserCalls, browserReplies, docState, createCalls>>
    /\ UNCHANGED SetupOthers

SetupNext ==
    \/ \E c \in Callers : SetupGetContexts(c)
    \/ BrowserTake
    \/ BrowserLoaded
    \/ SetupResume
    \/ \E c \in Callers : SetupAwaited(c)

SetupSpec == SetupInit /\ [][SetupNext]_vars

(***************************************************************************)
(* setupSandbox and resetSandbox with every readyHandler and every 3 s     *)
(* timer they leave behind, under a processQueue loop that takes item      *)
(* after item. The timers have the same delay and fire in the order they   *)
(* were armed; the 60 s timer of an item fires after all of them.          *)
(***************************************************************************)
MaxSetups == 3

SandboxInit ==
    /\ files = QuietFiles
    /\ PipeIdle
    /\ PollIdle
    /\ PlaceholderIdle
    /\ StoreIdle
    /\ ErrIdle
    /\ PasteIdle
    /\ IdIdle
    /\ EventIdle
    /\ OverlapIdle
    /\ MirrorIdle
    /\ QueueIdle
    /\ SetupIdle
    /\ SandboxIdle
    /\ ChannelIdle

SandboxOthers == <<storeVars, pageVars, dispVars, histVars, pollVars, phVars,
                   dbVars, errVars, pasteVars, idVars, queueVars, setupVars, channelVars,
    mirrorVars,
    overlapVars,
    eventVars>>

RelayRest == <<offMsgs, conversionQueue, isProcessing, rhCur, rhData, rhOut, pendingRequests>>

\* setTimeout(() => { if (!sandboxReady) { ... } }, 3000)
TimerSkips(ready) == ready

\* sandboxFrame.contentWindow.postMessage(CONVERT_HEIC): a frame whose script has run and
\* that is not converting takes the message
Posted ==
    /\ rhPc' = "await"
    /\ isConverting' = (isConverting \/ cellLoaded)

\* await setupSandbox(): a ready frame is reused and the promise resolves at once; else the
\* frame, if any, is reset (only then is sandboxReady set to false), a new one is appended,
\* and a readyHandler and a 3 s timer are set
SetupSandbox ==
    /\ rhPc = "idle"
    /\ IF CellReusable
       THEN /\ Posted
            /\ UNCHANGED <<sandboxFrame, sandboxReady, cellLoaded, sandboxVars>>
       ELSE /\ setupCount < MaxSetups
            /\ setupCount' = setupCount + 1
            /\ sandboxFrame' = TRUE
            /\ sandboxReady' = (~sandboxFrame /\ sandboxReady)
            /\ cellLoaded' = FALSE
            /\ isConverting' = FALSE
            /\ readyHandlers' = readyHandlers \cup {setupCount + 1}
            /\ readyTimers' = Append(readyTimers, setupCount + 1)
            /\ rhPc' = "setup"
            /\ UNCHANGED <<resolvedSetups, readyMsgs>>
    /\ UNCHANGED <<RelayRest, cellCur>>
    /\ UNCHANGED SandboxOthers

\* sandbox.js runs in the current frame: window.parent.postMessage({ action: 'SANDBOX_READY' })
FrameLoads ==
    /\ sandboxFrame
    /\ ~cellLoaded
    /\ cellLoaded' = TRUE
    /\ readyMsgs' = readyMsgs + 1
    /\ UNCHANGED <<sandboxFrame, sandboxReady, isConverting, cellCur, rhPc, RelayRest>>
    /\ UNCHANGED <<setupCount, readyHandlers, readyTimers, resolvedSetups>>
    /\ UNCHANGED SandboxOthers

\* a SANDBOX_READY message is dispatched: every registered readyHandler sets
\* sandboxReady = true, removes itself and resolves its promise, whichever frame posted
ReadyHandler ==
    /\ readyMsgs > 0
    /\ readyMsgs' = readyMsgs - 1
    /\ IF readyHandlers # {}
       THEN /\ sandboxReady' = TRUE
            /\ resolvedSetups' = resolvedSetups \cup readyHandlers
            /\ readyHandlers' = {}
            /\ IF rhPc = "setup" /\ setupCount \in readyHandlers
               THEN Posted
               ELSE UNCHANGED <<rhPc, isConverting>>
       ELSE UNCHANGED <<sandboxReady, resolvedSetups, readyHandlers, rhPc, isConverting>>
    /\ UNCHANGED <<sandboxFrame, cellLoaded, cellCur, RelayRest>>
    /\ UNCHANGED <<setupCount, readyTimers>>
    /\ UNCHANGED SandboxOthers

\* the oldest 3 s timer fires: if (!sandboxReady) { sandboxReady = true; resolve() }
ReadyTimeout ==
    /\ readyTimers # <<>>
    /\ readyTimers' = Tail(readyTimers)
    /\ IF TimerSkips(sandboxReady)
       THEN UNCHANGED <<sandboxReady, resolvedSetups, rhPc, isConverting>>
       ELSE /\ sandboxReady' = TRUE
            /\ resolvedSetups' = resolvedSetups \cup {Head(readyTimers)}
            /\ IF rhPc = "setup" /\ Head(readyTimers) = setupCount
                  /\ setupCount \notin resolvedSetups
               THEN Posted
               ELSE UNCHANGED <<rhPc, isConverting>>
    /\ UNCHANGED <<sandboxFrame, cellLoaded, cellCur, RelayRest>>
    /\ UNCHANGED <<setupCount, readyHandlers, readyMsgs>>
    /\ UNCHANGED SandboxOthers

\* resetSandbox(): sandboxFrame.remove(); sandboxFrame = null; sandboxReady = false
ResetSandbox ==
    /\ sandboxFrame' = FALSE
    /\ sandboxReady' = FALSE
    /\ cellLoaded' = FALSE

\* the cell answers CONVERT_HEIC: on success the frame stays; if (!result.success)
\* resetSandbox(); the loop goes on to the next item
RoundTripEnds(success) ==
    /\ rhPc = "await"
    /\ isConverting
    /\ isConverting' = FALSE
    /\ rhPc' = "idle"
    /\ IF success
       THEN UNCHANGED <<sandboxFrame, sandboxReady, cellLoaded>>
       ELSE ResetSandbox
    /\ UNCHANGED <<cellCur, RelayRest, sandboxVars>>
    /\ UNCHANGED SandboxOthers

\* the timer of the item fires with the entry still pending: reject, nothing is reset
RoundTripTimeout ==
    /\ rhPc = "await"
    /\ readyTimers = <<>>
    /\ rhPc' = "idle"
    /\ UNCHANGED <<sandboxFrame, sandboxReady, cellLoaded, isConverting, cellCur, RelayRest>>
    /\ UNCHANGED sandboxVars
    /\ UNCHANGED SandboxOthers

SandboxNext ==
    \/ SetupSandbox
    \/ FrameLoads
    \/ ReadyHandler
    \/ ReadyTimeout
    \/ \E success \in BOOLEAN : RoundTripEnds(success)
    \/ RoundTripTimeout

SandboxSpec == SandboxInit /\ [][SandboxNext]_vars

\* timers fire and posted messages are dispatched; a frame need not load
SandboxFairSpec ==
    /\ SandboxSpec
    /\ WF_vars(ReadyTimeout)
    /\ WF_vars(ReadyHandler)

(***************************************************************************)
(* The two chrome.runtime.onMessage listeners on one channel. A message    *)
(* sent with chrome.runtime.sendMessage is dispatched to the listeners of  *)
(* the extension's contexts, each in its own time; here every message goes *)
(* to both listeners, the sender's own included.                           *)
(***************************************************************************)
ChannelInit ==
    /\ files = QuietFiles
    /\ PipeIdle
    /\ PollIdle
    /\ PlaceholderIdle
    /\ StoreIdle
    /\ ErrIdle
    /\ PasteIdle
    /\ IdIdle
    /\ EventIdle
    /\ OverlapIdle
    /\ MirrorIdle
    /\ QueueIdle
    /\ SetupIdle
    /\ SandboxIdle
    /\ ChannelIdle

ChannelOthers == <<pipeVars, pollVars, phVars, dbVars, errVars, pasteVars, idVars, queueVars,
                   setupVars, sandboxVars,
    mirrorVars,
    overlapVars,
    eventVars>>

\* content script: { action: 'CONVERT_HEIC', requestId }
PageMessage(r) == [target |-> "undefined", action |-> "CONVERT_HEIC", requestId |-> r]

\* performConversion: { target: 'offscreen', action: 'CONVERT_HEIC', requestId }
OffscreenMessage(r) == [target |-> "offscreen", action |-> "CONVERT_HEIC", requestId |-> r]

ChannelMessages == {PageMessage(r) : r \in Ids} \cup {OffscreenMessage(r) : r \in Ids}

\* variant: no message is taken to be for the offscreen document
ForOffscreenMutant(request) == FALSE

\* request.target === 'offscreen'
ForOffscreen(request) == request.target = "offscreen"

\* the content script: chrome.runtime.sendMessage({ action: 'CONVERT_HEIC', requestId })
ChannelPageSend(r) ==
    /\ PageMessage(r) \notin sentMsgs
    /\ sentMsgs' = sentMsgs \cup {PageMessage(r)}
    /\ bgInbox' = bgInbox \cup {PageMessage(r)}
    /\ offInbox' = offInbox \cup {PageMessage(r)}
    /\ UNCHANGED <<bgStarted, offQueued>>
    /\ UNCHANGED ChannelOthers

\* the service worker's listener: if (request.target === 'offscreen') return false;
\* if (request.action === 'CONVERT_HEIC') performConversion(request.requestId)
BgListener(request) ==
    /\ request \in bgInbox
    /\ bgInbox' = bgInbox \ {request}
    /\ bgStarted' = IF ~ForOffscreen(request) /\ request.action = "CONVERT_HEIC"
                    THEN bgStarted \cup {request}
                    ELSE bgStarted
    /\ UNCHANGED <<offInbox, offQueued, sentMsgs>>
    /\ UNCHANGED ChannelOthers

\* performConversion, step 5: chrome.runtime.sendMessage({ target: 'offscreen', ... })
ChannelNotify(r) ==
    /\ \E request \in bgStarted : request.requestId = r
    /\ OffscreenMessage(r) \notin sentMsgs
    /\ sentMsgs' = sentMsgs \cup {OffscreenMessage(r)}
    /\ bgInbox' = bgInbox \cup {OffscreenMessage(r)}
    /\ offInbox' = offInbox \cup {OffscreenMessage(r)}
    /\ UNCHANGED <<bgStarted, offQueued>>
    /\ UNCHANGED ChannelOthers

\* the offscreen document's listener: if (request.target !== 'offscreen') return false;
\* if (request.action === 'CONVERT_HEIC') queueConversion(request.requestId)
OffListener(request) ==
    /\ request \in offInbox
    /\ offInbox' = offInbox \ {request}
    /\ offQueued' = IF ForOffscreen(request) /\ request.action = "CONVERT_HEIC"
                    THEN offQueued \cup {request}
                    ELSE offQueued
    /\ UNCHANGED <<bgInbox, bgStarted, sentMsgs>>
    /\ UNCHANGED ChannelOthers

ChannelNext ==
    \/ \E r \in Ids : ChannelPageSend(r)
    \/ \E request \in ChannelMessages : BgListener(request)
    \/ \E r \in Ids : ChannelNotify(r)
    \/ \E request \in ChannelMessages : OffListener(request)

ChannelSpec == ChannelInit /\ [][ChannelNext]_vars

(***************************************************************************)
(* performConversion from its poll loop on, with an IndexedDB whose        *)
(* requests can fail: getImage finds the result, storage.local.set,        *)
(* deleteImage twice, and the catch of the listener for whatever is thrown *)
(***************************************************************************)
MirrorInit ==
    /\ files = QuietFiles
    /\ PipeIdle
    /\ PollIdle
    /\ PlaceholderIdle
    /\ StoreIdle
    /\ ErrIdle
    /\ PasteIdle
    /\ IdIdle
    /\ EventIdle
    /\ OverlapIdle
    /\ QueueIdle
    /\ SetupIdle
    /\ SandboxIdle
    /\ ChannelIdle
    /\ mirrorPc = [r \in Ids |-> "poll"]
    /\ mirrorBulk = {<<"request", r>> : r \in Ids}
    /\ mirrorResult = [r \in Ids |-> "none"]
    /\ mirrorSignal = [r \in Ids |-> "none"]
    /\ mirroredOk = [r \in Ids |-> FALSE]
    /\ mirrorPage = [r \in Ids |-> "waiting"]

MirrorOthers == <<pipeVars, pollVars, phVars, dbVars, errVars, pasteVars, idVars, queueVars,
    setupVars, sandboxVars, channelVars,
    overlapVars,
    eventVars>>

\* the listener's catch: chrome.storage.local.set({ result_<id>: { error: error.message } })
MirrorCatch(r) ==
    /\ mirrorSignal' = [mirrorSignal EXCEPT ![r] = "error"]
    /\ mirrorPc' = [mirrorPc EXCEPT ![r] = "failed"]

\* the Relay Host: saveImage(resultKey, ...) with a success or an error record
MirrorRelaySaves(r, kind) ==
    /\ mirrorPc[r] = "poll"
    /\ mirrorResult[r] = "none"
    /\ <<"request", r>> \in mirrorBulk
    /\ mirrorResult' = [mirrorResult EXCEPT ![r] = kind]
    /\ mirrorBulk' = mirrorBulk \cup {<<"result", r>>}
    /\ UNCHANGED <<mirrorPc, mirrorSignal, mirroredOk, mirrorPage>>
    /\ UNCHANGED MirrorOthers

\* resultData = await getImage(resultKey): found, and
\* await chrome.storage.local.set({ [resultKey]: resultData })
MirrorFound(r) ==
    /\ mirrorPc[r] = "poll"
    /\ mirrorResult[r] # "none"
    /\ mirrorSignal' = [mirrorSignal EXCEPT ![r] = mirrorResult[r]]
    /\ mirroredOk' = [mirroredOk EXCEPT ![r] = @ \/ mirrorResult[r] = "success"]
    /\ mirrorPc' = [mirrorPc EXCEPT ![r] = "deleteRequest"]
    /\ UNCHANGED <<mirrorBulk, mirrorResult, mirrorPage>>
    /\ UNCHANGED MirrorOthers

\* the loop ends on the clock: throw new Error('Conversion timeout')
MirrorPollTimeout(r) ==
    /\ mirrorPc[r] = "poll"
    /\ MirrorCatch(r)
    /\ UNCHANGED <<mirrorBulk, mirrorResult, mirroredOk, mirrorPage>>
    /\ UNCHANGED MirrorOthers

\* await deleteImage(requestKey): resolves, or rejects (request.onerror, failed open)
MirrorDeleteRequest(r, ok) ==
    /\ mirrorPc[r] = "deleteRequest"
    /\ IF ok
       THEN /\ mirrorBulk' = mirrorBulk \ {<<"request", r>>}
            /\ mirrorPc' = [mirrorPc EXCEPT ![r] = "deleteResult"]
            /\ UNCHANGED mirrorSignal
       ELSE /\ MirrorCatch(r)
            /\ UNCHANGED mirrorBulk
    /\ UNCHANGED <<mirrorResult, mirroredOk, mirrorPage>>
    /\ UNCHANGED MirrorOthers

\* await deleteImage(resultKey); return
MirrorDeleteResult(r, ok) ==
    /\ mirrorPc[r] = "deleteResult"
    /\ IF ok
       THEN /\ mirrorBulk' = mirrorBulk \ {<<"result", r>>}
            /\ mirrorResult' = [mirrorResult EXCEPT ![r] = "none"]
            /\ mirrorPc' = [mirrorPc EXCEPT ![r] = "done"]
            /\ UNCHANGED mirrorSignal
       ELSE /\ MirrorCatch(r)
            /\ UNCHANGED <<mirrorBulk, mirrorResult>>
    /\ UNCHANGED <<mirroredOk, mirrorPage>>
    /\ UNCHANGED MirrorOthers

\* the content script's poll finds result_<id>; a result with data is removed from
\* storage.local after use, an error result is thrown and stays
MirrorPageReads(r) ==
    /\ mirrorPage[r] = "waiting"
    /\ mirrorSignal[r] # "none"
    /\ mirrorPage' = [mirrorPage EXCEPT ![r] = mirrorSignal[r]]
    /\ mirrorSignal' = [mirrorSignal EXCEPT ![r] = IF @ = "success" THEN "none" ELSE @]
    /\ UNCHANGED <<mirrorPc, mirrorBulk, mirrorResult, mirroredOk>>
    /\ UNCHANGED MirrorOthers

MirrorNext ==
    \E r \in Ids :
        \/ \E kind \in {"success", "error"} : MirrorRelaySaves(r, kind)
        \/ MirrorFound(r)
        \/ MirrorPollTimeout(r)
        \/ \E ok \in BOOLEAN : MirrorDeleteRequest(r, ok)
        \/ \E ok \in BOOLEAN : MirrorDeleteResult(r, ok)
        \/ MirrorPageReads(r)

MirrorSpec == MirrorInit /\ [][MirrorNext]_vars

(***************************************************************************)
(* handleDataTransfer: overlapping paste / drop events on one textarea,    *)
(* each with one file of the same name, so that their placeholder texts    *)
(* are identical. The user may move the cursor between the steps.          *)
(***************************************************************************)
\* `![Converting ${file.name}...]()\n` of files with one name
SamePlaceholder == <<"a", "b">>

OverlapInit ==
    /\ files = QuietFiles
    /\ PipeIdle
    /\ PollIdle
    /\ PlaceholderIdle
    /\ StoreIdle
    /\ ErrIdle
    /\ PasteIdle
    /\ IdIdle
    /\ EventIdle
    /\ QueueIdle
    /\ SetupIdle
    /\ SandboxIdle
    /\ ChannelIdle
    /\ MirrorIdle
    /\ olValue \in StringsUpTo(1)
    /\ olStart \in 0..Len(olValue)
    /\ olEnd = olStart
    /\ olPc = [h \in Handlers |-> "start"]
    /\ olPos = [h \in Handlers |-> -1]
    /\ olOutcome = [h \in Handlers |-> "none"]
    /\ olRemovals = [h \in Handlers |-> 0]

OverlapOthers == <<pipeVars, pollVars, phVars, dbVars, errVars, pasteVars, idVars, queueVars,
    setupVars, sandboxVars, channelVars, mirrorVars,
    eventVars>>

\* removePlaceholder as a function of the textarea: the text and the cursor after the
\* call, and whether the call changed the text
Removed(value, cursor, placeholder, insertPosition) ==
    LET placeholderIndex == PlaceholderIndex(value, placeholder, insertPosition)
    IN IF placeholderIndex # -1
       THEN [value |-> Substring(value, 0, placeholderIndex)
                          \o SubstringFrom(value, placeholderIndex + Len(placeholder)),
             cursor |-> <<placeholderIndex, placeholderIndex>>,
             hits |-> 1]
       ELSE [value |-> value, cursor |-> cursor, hits |-> 0]

\* placeholderPosition = insertPlaceholder(textarea, placeholder)
OverlapInsert(h) ==
    /\ olPc[h] = "start"
    /\ olValue' = Substring(olValue, 0, olStart) \o SamePlaceholder
                     \o TextAfter(olValue, olStart, olEnd)
    /\ olStart' = olStart + Len(SamePlaceholder)
    /\ olEnd' = olStart + Len(SamePlaceholder)
    /\ olPos' = [olPos EXCEPT ![h] = olStart]
    /\ olPc' = [olPc EXCEPT ![h] = "waiting"]
    /\ UNCHANGED <<olOutcome, olRemovals>>
    /\ UNCHANGED OverlapOthers

\* waitForResult resolves: removePlaceholder; a result with data ends the file, a result
\* without data throws into the catch, which calls removePlaceholder in the same run
OverlapResolved(h, kind) ==
    /\ olPc[h] = "waiting"
    /\ LET first == Removed(olValue, <<olStart, olEnd>>, SamePlaceholder, olPos[h])
           second == Removed(first.value, first.cursor, SamePlaceholder, olPos[h])
           last == IF kind = "success" THEN first ELSE second
       IN /\ olValue' = last.value
          /\ olStart' = last.cursor[1]
          /\ olEnd' = last.cursor[2]
          /\ olRemovals' = [olRemovals EXCEPT ![h] =
                               IF kind = "success" THEN first.hits
                               ELSE first.hits + second.hits]
    /\ olOutcome' = [olOutcome EXCEPT ![h] = kind]
    /\ olPc' = [olPc EXCEPT ![h] = "done"]
    /\ UNCHANGED olPos
    /\ UNCHANGED OverlapOthers

\* waitForResult rejects (timeout, invalidated context): only the catch runs
OverlapRejected(h, kind) ==
    /\ olPc[h] = "waiting"
    /\ LET only == Removed(olValue, <<olStart, olEnd>>, SamePlaceholder, olPos[h])
       IN /\ olValue' = only.value
          /\ olStart' = only.cursor[1]
          /\ olEnd' = only.cursor[2]
          /\ olRemovals' = [olRemovals EXCEPT ![h] = only.hits]
    /\ olOutcome' = [olOutcome EXCEPT ![h] = kind]
    /\ olPc' = [olPc EXCEPT ![h] = "done"]
    /\ UNCHANGED olPos
    /\ UNCHANGED OverlapOthers

\* the user puts the cursor somewhere else while conversions run
OverlapSelect(pos) ==
    /\ \E h \in Handlers : olPc[h] = "waiting"
    /\ pos <= Len(olValue)
    /\ pos # olStart
    /\ olStart' = pos
    /\ olEnd' = pos
    /\ UNCHANGED <<olValue, olPc, olPos, olOutcome, olRemovals>>
    /\ UNCHANGED OverlapOthers

OverlapNext ==
    \/ \E h \in Handlers :
          \/ OverlapInsert(h)
          \/ \E kind \in {"success", "failure"} : OverlapResolved(h, kind)
          \/ \E kind \in {"timeout", "invalidated"} : OverlapRejected(h, kind)
    \/ \E pos \in 0..(1 + NumHandlers * Len(SamePlaceholder)) : OverlapSelect(pos)

OverlapSpec == OverlapInit /\ [][OverlapNext]_vars

(***************************************************************************)
(* The capture-phase paste / drop listeners: handleDataTransfer from the   *)
(* event it is given to the synthetic event it dispatches, which the same  *)
(* listeners see again.                                                    *)
(***************************************************************************)
MaxDispatches == 2

HeicType == "image/heic"

\* what a native event can carry: names with and without the extension, in several
\* letter cases, under a HEIC type, another type or no type
EventNames ==
    { PhotoHeic, PhotoJpg,
      <<"p", ".", "H", "e", "I", "C">>,
      <<"h", "e", "i", "c", ".", "x">>,
      <<"p", ".", "h", "e", "i", "c", ".", "h", "e", "i", "c">> }

EventItems == [name : EventNames, type : {HeicType, "image/jpeg", ""}]

RECURSIVE SeqsUpTo(_, _)
SeqsUpTo(S, n) ==
    IF n = 0 THEN {<<>>}
    ELSE LET shorter == SeqsUpTo(S, n - 1)
         IN shorter \cup {Append(s, x) : s \in shorter, x \in S}

EventSeen(items, valid) ==
    [items |-> items, valid |-> valid, suppressed |-> FALSE, placeholders |-> 0,
     writes |-> 0, notes |-> 0]

EventInit ==
    /\ files = QuietFiles
    /\ PipeIdle
    /\ PollIdle
    /\ PlaceholderIdle
    /\ StoreIdle
    /\ ErrIdle
    /\ PasteIdle
    /\ IdIdle
    /\ QueueIdle
    /\ SetupIdle
    /\ SandboxIdle
    /\ ChannelIdle
    /\ MirrorIdle
    /\ OverlapIdle
    /\ \E items \in SeqsUpTo(EventItems, MaxFiles) : evLog = <<EventSeen(items, TRUE)>>
    /\ evPc = "listen"
    /\ evRuntime \in BOOLEAN
    /\ evTextarea \in BOOLEAN
    /\ evHeic = <<>>
    /\ evConverted = <<>>

EventOthers == <<pipeVars, pollVars, phVars, dbVars, errVars, pasteVars, idVars, queueVars,
    setupVars, sandboxVars, channelVars, mirrorVars, overlapVars>>

\* variant: the name is compared as it is
QualifiesMutant(item) ==
    \/ item.type = HeicType
    \/ /\ Len(item.name) >= 5
       /\ SubSeq(item.name, Len(item.name) - 4, Len(item.name)) = <<".", "h", "e", "i", "c">>

\* item.type === 'image/heic' || item.getAsFile()?.name.toLowerCase().endsWith('.heic')
Qualifies(item) ==
    \/ item.type = HeicType
    \/ /\ Len(item.name) >= 5
       /\ SubSeq(LowerAll(item.name), Len(item.name) - 4, Len(item.name))
             = <<".", "h", "e", "i", "c">>

\* variant: the new File keeps the type of a HEIC image
ConvertedTypeMutant == HeicType

\* new File([blob], result.fileName, { type: 'image/jpeg', ... })
ConvertedType == "image/jpeg"

\* the event the handler is working on
Newest == Len(evLog)

\* for (const item of heicItems): the next item, or past the loop
EventNextItem ==
    /\ evHeic' = Tail(evHeic)
    /\ evPc' = IF Tail(evHeic) = <<>> THEN "dispatch" ELSE "begin"

\* the listener calls handleDataTransfer: the runtime check, heicItems, and for a
\* non-empty heicItems preventDefault and stopPropagation
EventListener ==
    /\ evPc = "listen"
    /\ LET heicItems == SelectSeq(evLog[Newest].items, Qualifies)
       IN IF ~evRuntime
          THEN /\ evLog' = [evLog EXCEPT ![Newest].valid = FALSE]
               /\ evPc' = "done"
               /\ UNCHANGED <<evHeic, evConverted>>
          ELSE IF heicItems = <<>>
               THEN /\ evLog' = [evLog EXCEPT ![Newest].valid = TRUE]
                    /\ evPc' = "done"
                    /\ UNCHANGED <<evHeic, evConverted>>
               ELSE /\ evLog' = [evLog EXCEPT ![Newest].valid = TRUE,
                                              ![Newest].suppressed = TRUE]
                    /\ evHeic' = heicItems
                    /\ evConverted' = <<>>
                    /\ evPc' = "begin"
    /\ UNCHANGED <<evRuntime, evTextarea>>
    /\ UNCHANGED EventOthers

\* if (canUsePlaceholder) insertPlaceholder(...); await fileToBase64(file)
EventBegin ==
    /\ evPc = "begin"
    /\ evLog' = [evLog EXCEPT ![Newest].placeholders = IF evTextarea THEN @ + 1 ELSE @]
    /\ evPc' = "write"
    /\ UNCHANGED <<evRuntime, evTextarea, evHeic, evConverted>>
    /\ UNCHANGED EventOthers

\* await chrome.storage.local.set({ request_<id> }); chrome.runtime.sendMessage(...);
\* on a lost context the call throws into the catch and the loop goes on
EventWrite ==
    /\ evPc = "write"
    /\ IF evRuntime
       THEN /\ evLog' = [evLog EXCEPT ![Newest].writes = @ + 1, ![Newest].notes = @ + 1]
            /\ evPc' = "wait"
            /\ UNCHANGED evHeic
       ELSE /\ EventNextItem
            /\ UNCHANGED evLog
    /\ UNCHANGED <<evRuntime, evTextarea, evConverted>>
    /\ UNCHANGED EventOthers

\* waitForResult ends: a result with data becomes a File of the name the result carries,
\* anything else goes through the catch
EventResult(success) ==
    /\ evPc = "wait"
    /\ evConverted' = IF success /\ evRuntime
                      THEN Append(evConverted, [name |-> ReplaceHeic(Head(evHeic).name),
                                                type |-> ConvertedType])
                      ELSE evConverted
    /\ EventNextItem
    /\ UNCHANGED <<evLog, evRuntime, evTextarea>>
    /\ UNCHANGED EventOthers

\* if (convertedFiles.length > 0) originalEvent.target.dispatchEvent(newEvent): the
\* listeners of the document see the new event
EventDispatch ==
    /\ evPc = "dispatch"
    /\ IF evConverted # <<>> /\ Len(evLog) <= MaxDispatches
       THEN /\ evLog' = Append(evLog, EventSeen(evConverted, TRUE))
            /\ evPc' = "listen"
       ELSE /\ evPc' = "done"
            /\ UNCHANGED evLog
    /\ UNCHANGED <<evRuntime, evTextarea, evHeic, evConverted>>
    /\ UNCHANGED EventOthers

\* the extension is reloaded or updated under the page
EventInvalidate ==
    /\ evPc \notin {"off", "done"}
    /\ evRuntime
    /\ evRuntime' = FALSE
    /\ UNCHANGED <<evLog, evPc, evTextarea, evHeic, evConverted>>
    /\ UNCHANGED EventOthers

EventNext ==
    \/ EventListener
    \/ EventBegin
    \/ EventWrite
    \/ \E success \in BOOLEAN : EventResult(success)
    \/ EventDispatch
    \/ EventInvalidate

EventSpec == EventInit /\ [][EventNext]_vars

(***************************************************************************)
(* db.js: saveImage / getImage / deleteImage / clearAllImages on the one   *)
(* object store, whose keys are request_<id> and result_<id>               *)
(***************************************************************************)
MaxOps == 3

DbKeys == {"request", "result"} \X Ids

\* two records a caller may save
DbValues == {RequestRecord(OtherFile), SuccessRecord(DataUri("jpegB"), <<"q", ".", "j", "p", "g">>)}

DbOp(op, key, value) == [op |-> op, key |-> key, value |-> value]

\* variant: store.add, which keeps the record a key already holds
SaveImageMutant(store, id, data) ==
    IF store[id].present THEN store ELSE [store EXCEPT ![id] = data]

\* store.put(data, key)
SaveImage(store, id, data) == [store EXCEPT ![id] = data]

\* store.get(key): request.result, undefined for a key that holds nothing
GetImage(store, id) == store[id]

\* variant: the delete request never reaches the store
DeleteImageMutant(store, id) == store

\* store.delete(key)
DeleteImage(store, id) == [store EXCEPT ![id] = NoRecord]

StoreInit ==
    /\ files = QuietFiles
    /\ PipeIdle
    /\ PollIdle
    /\ PlaceholderIdle
    /\ StoreIdle
    /\ ErrIdle
    /\ PasteIdle
    /\ IdIdle
    /\ MoreIdle

DbSave(key, data) ==
    /\ Len(dbLog) < MaxOps
    /\ IF key[1] = "request"
       THEN /\ bulkReq' = SaveImage(bulkReq, key[2], data)
            /\ UNCHANGED bulkRes
       ELSE /\ bulkRes' = SaveImage(bulkRes, key[2], data)
            /\ UNCHANGED bulkReq
    /\ dbLog' = Append(dbLog, DbOp("save", key, data))
    /\ UNCHANGED <<dbGot, sigReq, sigRes>>
    /\ UNCHANGED <<pageVars, dispVars, relayVars, cellVars, histVars, pollVars, phVars, errVars, pasteVars, idVars, moreVars>>

DbGet(key) ==
    /\ Len(dbLog) < MaxOps
    /\ dbGot' = IF key[1] = "request"
                THEN GetImage(bulkReq, key[2])
                ELSE GetImage(bulkRes, key[2])
    /\ dbLog' = Append(dbLog, DbOp("get", key, NoRecord))
    /\ UNCHANGED <<pipeVars, pollVars, phVars, errVars, pasteVars, idVars, moreVars>>

DbDelete(key) ==
    /\ Len(dbLog) < MaxOps
    /\ IF key[1] = "request"
       THEN /\ bulkReq' = DeleteImage(bulkReq, key[2])
            /\ UNCHANGED bulkRes
       ELSE /\ bulkRes' = DeleteImage(bulkRes, key[2])
            /\ UNCHANGED bulkReq
    /\ dbLog' = Append(dbLog, DbOp("delete", key, NoRecord))
    /\ UNCHANGED <<dbGot, sigReq, sigRes>>
    /\ UNCHANGED <<pageVars, dispVars, relayVars, cellVars, histVars, pollVars, phVars, errVars, pasteVars, idVars, moreVars>>

DbClear ==
    /\ Len(dbLog) < MaxOps
    /\ bulkReq' = ClearAllImages(bulkReq)
    /\ bulkRes' = ClearAllImages(bulkRes)
    /\ dbLog' = Append(dbLog, DbOp("clear", <<"", 0>>, NoRecord))
    /\ UNCHANGED <<dbGot, sigReq, sigRes>>
    /\ UNCHANGED <<pageVars, dispVars, relayVars, cellVars, histVars, pollVars, phVars, errVars, pasteVars, idVars, moreVars>>

StoreNext ==
    \/ \E key \in DbKeys : \E data \in DbValues : DbSave(key, data)
    \/ \E key \in DbKeys : DbGet(key)
    \/ \E key \in DbKeys : DbDelete(key)
    \/ DbClear

StoreSpec == StoreInit /\ [][StoreNext]_vars

(***************************************************************************)
(* sandbox.js getErrorMessage                                              *)
(***************************************************************************)
MaxNesting == 2

PlainValues ==
    {ErrValue("string", t, <<>>, <<>>, <<>>) : t \in {"boom", ""}}
        \cup {ErrValue("Error", "", <<m>>, <<>>, <<>>) : m \in {"failed", ""}}
        \cup {ErrValue("number", "", <<>>, <<>>, <<n>>) : n \in {0, 7}}
        \cup {ErrValue("null", "", <<>>, <<>>, <<>>), Undefined}

Messages == {<<>>, <<"">>, <<"bad input">>}
Codes == {<<>>, <<500>>}

RECURSIVE ErrValues(_)
ErrValues(depth) ==
    LET flat == PlainValues \cup {ErrValue("object", "", m, <<>>, c) : m \in Messages, c \in Codes}
    IN IF depth = 0 THEN flat
       ELSE LET inner == ErrValues(depth - 1)
            IN inner \cup {ErrValue("object", "", m, <<v>>, c) :
                              m \in Messages, v \in inner, c \in Codes}

\* JavaScript truthiness
Truthy(v) ==
    CASE v.kind = "string" -> v.text # ""
      [] v.kind = "number" -> v.code # <<0>>
      [] v.kind \in {"null", "undefined"} -> FALSE
      [] OTHER -> TRUE

\* JSON.stringify of a property value that is not an object
JsonValue(v) ==
    CASE v.kind = "string" -> <<"\"", v.text, "\"">>
      [] v.kind = "number" -> IF v.code = <<0>> THEN <<"0">> ELSE <<"7">>
      [] OTHER -> <<"null">>

\* JSON.stringify(error) of a plain object: a property holding undefined is left out
JsonStringify(e) ==
    <<"{">>
    \o (IF e.message # <<>> THEN <<"message:", "\"", e.message[1], "\"">> ELSE <<>>)
    \o (IF e.error # <<>> /\ e.error[1].kind # "undefined"
        THEN <<"error:">> \o JsonValue(e.error[1]) ELSE <<>>)
    \o (IF e.code # <<>> THEN <<"code:", "500">> ELSE <<>>)
    \o <<"}">>

\* variant: the nested error is not looked into
GetErrorMessageMutant(error) ==
    CASE error.kind = "string" -> <<error.text>>
      [] error.kind = "Error" -> <<error.message[1]>>
      [] error.kind = "object" ->
            IF error.message # <<>> /\ error.message[1] # ""
            THEN <<error.message[1]>>
            ELSE JsonStringify(error)
      [] OTHER -> <<"Unknown error">>

\* getErrorMessage(error); the result is a one-element tuple holding the string, or the
\* pieces of the JSON text
RECURSIVE GetErrorMessage(_)
GetErrorMessage(error) ==
    CASE error.kind = "string" -> <<error.text>>
      [] error.kind = "Error" -> <<error.message[1]>>
      [] error.kind = "object" ->
            IF error.message # <<>> /\ error.message[1] # ""
            THEN <<error.message[1]>>
            ELSE IF error.error # <<>> /\ Truthy(error.error[1])
                 THEN GetErrorMessage(error.error[1])
                 ELSE JsonStringify(error)
      [] OTHER -> <<"Unknown error">>

ErrInit ==
    /\ files = QuietFiles
    /\ PipeIdle
    /\ PollIdle
    /\ PlaceholderIdle
    /\ StoreIdle
    /\ PasteIdle
    /\ IdIdle
    /\ MoreIdle
    /\ errIn \in ErrValues(MaxNesting)
    /\ errOut = <<>>
    /\ errPc = "thrown"

\* catch (error) { const errorMsg = getErrorMessage(error); ... }
Normalize ==
    /\ errPc = "thrown"
    /\ errOut' = GetErrorMessage(errIn)
    /\ errPc' = "normalized"
    /\ UNCHANGED errIn
    /\ UNCHANGED <<pipeVars, pollVars, phVars, dbVars, pasteVars, idVars, moreVars>>

ErrNext == Normalize

ErrSpec == ErrInit /\ [][ErrNext]_vars

(***************************************************************************)
(* Properties                                                              *)
(***************************************************************************)

\* C1: the Relay Host runs at most one drain loop at a time, and a requestId is posted
\* to the Converter Cell only when every requestId posted before it has had its result
\* saved to the bulk tier (at most one posted-and-unsaved item, one pending entry).
C1_SingleDrainLoop ==
    /\ activeLoops <= 1
    /\ inFlight <= 1
    /\ Cardinality(pendingRequests) <= 1

\* a second requestId is with the cell after the first one was posted and saved
C1_SecondPostedAfterFirst ==
    \E r \in Ids :
        /\ rhPc = "await"
        /\ rhCur # 0
        /\ rhCur # r
        /\ cellReceived[r] > 0
        /\ cellReceived[rhCur] > 0
        /\ inFlight = 1

\* C2 (as stated): once the Dispatcher has finished handling a request whose page is
\* still polling, a terminal result for it is in the signal tier for the poll to observe.
C2_FinishedRequestObservable ==
    \A r \in Ids :
        (pagePc[r] = "polling" /\ dispPc[r] \in {"cleanup", "done", "failed"})
            => sigRes[r].present

\* C3 (as stated): a step of the Dispatcher's handling of one request (sweep, copy,
\* mirror, cleanup) leaves the records of every other request whose page is still
\* polling as they are, in both tiers.
C3_OtherRequestsUntouched ==
    [][\A q \in Ids : \A r \in Ids \ {q} :
          (dispPc'[q] # dispPc[q] /\ DispRunning(q) /\ pagePc[r] = "polling")
              => /\ sigReq'[r] = sigReq[r]
                 /\ sigRes'[r] = sigRes[r]
                 /\ bulkReq'[r] = bulkReq[r]
                 /\ bulkRes'[r] = bulkRes[r]]_vars

FreshInvocation(r) == invocations[r] >= 2

\* where performConversion stands once it has put result_<id> into the signal tier
ResultWritten == {"cleanup", "failed"}

DecodeFailed(r) ==
    /\ bulkRes[r].present
    /\ bulkRes[r].error \in {DecodeError, DetailedError(DecodeError)}

C9_PlaceholderRoundTrip ==
    /\ phPc \in {"inserted", "removed"} => phPos = taOriginal.start
    /\ (phPc = "removed" /\ taOriginal.start = taOriginal.end)
          => /\ taValue = taOriginal.value
             /\ selectionStart = taOriginal.start
             /\ selectionEnd = taOriginal.start

\* the token "ab" was put at the end of "abb", which already starts with "ab", and removed
C9_RemovedAfterEarlierOccurrence ==
    /\ phPc = "removed"
    /\ taOriginal = [value |-> <<"a", "b", "b">>, start |-> 3, end |-> 3]
    /\ phText = <<"a", "b">>
    /\ taValue = <<"a", "b", "b">>

JpgSuffix == <<".", "j", "p", "g">>

ExpectedName(name) ==
    IF Len(name) >= 5 /\ LowerAll(SubSeq(name, Len(name) - 4, Len(name)))
                            = <<".", "h", "e", "i", "c">>
    THEN SubSeq(name, 1, Len(name) - 5) \o JpgSuffix
    ELSE name

Converted(rec, r) ==
    /\ rec.fileName = ExpectedName(files[r].name)
    /\ rec.data = <<"data:", Heic2Any(files[r].bytes)>>
    /\ files[r].name = PhotoHeic => rec.fileName = PhotoJpg

\* C10: a successful result names the file with a trailing .heic, in any letter case,
\* replaced by .jpg (p.heic -> p.jpg), and that name and the converted data are the same
\* in the bulk tier, in the signal tier and in what the Page Agent's poll receives.
C10_NameAndDataReachPage ==
    \A r \in Ids :
        /\ bulkRes[r].success = "true" => Converted(bulkRes[r], r)
        /\ sigRes[r].success = "true" => Converted(sigRes[r], r)
        /\ pagePc[r] = "success" => (pageResult[r].success = "true" /\ Converted(pageResult[r], r))

\* the page received p.jpg for p.HeIC
C10_MixedCaseRenamed ==
    /\ pagePc[1] = "success"
    /\ files[1].name = <<"p", ".", "H", "e", "I", "C">>
    /\ pageResult[1].fileName = PhotoJpg

\* what the store holds under a key: the bulk tier of the pipeline
Stored(key) == IF key[1] = "request" THEN bulkReq[key[2]] ELSE bulkRes[key[2]]

\* the value of the last save of the key that no later delete of it or clear undid
RECURSIVE LastSaved(_, _)
LastSaved(log, key) ==
    IF log = <<>> THEN NoRecord
    ELSE LET last == log[Len(log)]
             front == SubSeq(log, 1, Len(log) - 1)
         IN CASE last.op = "save" /\ last.key = key -> last.value
              [] last.op = "delete" /\ last.key = key -> NoRecord
              [] last.op = "clear" -> NoRecord
              [] OTHER -> LastSaved(front, key)

LastOp == dbLog[Len(dbLog)]

\* C11: every key holds the value of its latest save until it is deleted or the store is
\* cleared, getImage resolves with exactly that value, and with undefined for a key that
\* holds nothing.
C11_StoreRoundTrip ==
    /\ \A key \in DbKeys : Stored(key) = LastSaved(dbLog, key)
    /\ (dbLog # <<>> /\ LastOp.op = "get") => dbGot = LastSaved(dbLog, LastOp.key)

\* two saves under one key, then a get that returned the second value
C11_SecondSaveRead ==
    /\ Len(dbLog) = 3
    /\ dbLog[1].op = "save"
    /\ dbLog[2].op = "save"
    /\ dbLog[2].key = dbLog[1].key
    /\ dbLog[2].value # dbLog[1].value
    /\ dbLog[3] = DbOp("get", dbLog[1].key, NoRecord)
    /\ dbGot = dbLog[2].value

\* C12: deleteImage leaves its key unreadable and every other key as it was, so on a key
\* that holds nothing (never saved, or already deleted) it changes nothing;
\* clearAllImages leaves no key readable, so a second clear changes nothing.
C12_DeleteAndClearIdempotent ==
    /\ [](dbLog # <<>> =>
            /\ LastOp.op = "delete" => ~Stored(LastOp.key).present
            /\ LastOp.op = "clear" => \A key \in DbKeys : ~Stored(key).present)
    /\ [][Len(dbLog') > Len(dbLog) =>
            LET op == dbLog'[Len(dbLog')]
            IN /\ op.op = "delete" =>
                      /\ \A key \in DbKeys \ {op.key} : Stored(key)' = Stored(key)
                      /\ ~Stored(op.key).present => UNCHANGED <<bulkReq, bulkRes>>
               /\ (op.op = "clear" /\ \A key \in DbKeys : ~Stored(key).present)
                      => UNCHANGED <<bulkReq, bulkRes>>]_vars

\* a key was saved and then deleted twice
C12_DeletedTwice ==
    /\ Len(dbLog) = 3
    /\ dbLog[1].op = "save"
    /\ dbLog[2] = DbOp("delete", dbLog[1].key, NoRecord)
    /\ dbLog[3] = dbLog[2]
    /\ ~Stored(dbLog[1].key).present

\* the property tests of getErrorMessage: the property is there / it holds a truthy value
HasMessage(e) == e.message # <<>>
HasTruthyMessage(e) == e.message # <<>> /\ e.message[1] # ""
HasError(e) == e.error # <<>>
HasTruthyError(e) == e.error # <<>> /\ Truthy(e.error[1])

\* the result is one string, or the pieces of one JSON text
IsText(out) == Len(out) = 1 \/ (out[1] = "{" /\ out[Len(out)] = "}")

C14_SelectionReplaced ==
    [][(phPc = "start" /\ phPc' = "inserted") =>
          LET shift == Len(phText) - (selectionEnd - selectionStart)
          IN /\ Len(taValue') = Len(taValue) + shift
             /\ \A i \in 1..selectionStart : taValue'[i] = taValue[i]
             /\ \A i \in 1..Len(phText) : taValue'[selectionStart + i] = phText[i]
             /\ \A i \in (selectionEnd + 1)..Len(taValue) : taValue'[i + shift] = taValue[i]
             /\ selectionStart' = selectionStart + Len(phText)
             /\ selectionEnd' = selectionStart'
             /\ phPos' = selectionStart]_vars

\* the middle character of a three character text was selected and replaced by the token
C14_MiddleSelectionReplaced ==
    /\ phPc = "inserted"
    /\ Len(taOriginal.value) = 3
    /\ taOriginal.start = 1 /\ taOriginal.end = 2
    /\ Len(phText) = 2
    /\ Len(taValue) = 4

\* the placeholder is found in the value at the 0-based index i
OccursAt(value, placeholder, i) ==
    /\ i + Len(placeholder) <= Len(value)
    /\ \A k \in 1..Len(placeholder) : value[i + k] = placeholder[k]

\* C15: removePlaceholder takes out exactly the first occurrence of the placeholder at or
\* after insertPosition, keeps all other text (earlier occurrences included) and puts the
\* cursor at the removal index; with no such occurrence the textarea is left as it is.
C15_FirstOccurrenceRemoved ==
    [][(phPc = "inserted" /\ phPc' = "removed") =>
          LET found == {i \in phPos..Len(taValue) : OccursAt(taValue, phText, i)}
          IN IF found = {}
             THEN UNCHANGED <<taValue, selectionStart, selectionEnd>>
             ELSE LET first == CHOOSE i \in found : \A j \in found : i <= j
                  IN /\ Len(taValue') = Len(taValue) - Len(phText)
                     /\ \A i \in 1..first : taValue'[i] = taValue[i]
                     /\ \A i \in (first + Len(phText) + 1)..Len(taValue) :
                            taValue'[i - Len(phText)] = taValue[i]
                     /\ selectionStart' = first
                     /\ selectionEnd' = first]_vars

\* of the three occurrences of "a" in "aaab" the one at the recorded position 1 was removed
\* and the cursor, which was at the end, is now there
C15_MiddleOccurrenceRemoved ==
    /\ phPc = "removed"
    /\ taOriginal = [value |-> <<"a", "a", "a", "b">>, start |-> 4, end |-> 4]
    /\ phText = <<"a">>
    /\ phPos = 1
    /\ taValue = <<"a", "a", "b">>
    /\ selectionStart = 1

\* what the signal tier, the textarea and the page hold for the file f of the event
FileTrace(f) ==
    <<itemOutcome[f], polls[f], f \in pasteReq, pasteRes[f], f \in placeholders, pasteBanner[f]>>

\* C16: a poll that finds the extension-runtime handle invalid ends the file at once: its
\* placeholder is removed, the "please refresh" banner is shown, nothing is read or
\* written; and for a file that ended this way nothing is polled, written or retried
\* afterwards.
C16_InvalidHandleEndsFile ==
    [][/\ (pastePc = "check" /\ ~runtimeId) =>
              /\ itemOutcome'[itemIdx] = "invalidated"
              /\ itemIdx \notin placeholders'
              /\ pasteBanner'[itemIdx] = "refresh"
              /\ itemIdx' = itemIdx + 1
              /\ UNCHANGED <<polls, pasteReq, pasteRes>>
       /\ \A f \in Items : itemOutcome[f] = "invalidated" => FileTrace(f)' = FileTrace(f)]_vars

\* the context was lost after the first poll of file 1, whose placeholder was in the
\* textarea and whose request had been written
C16_InvalidatedWhilePolling ==
    /\ canUsePlaceholder
    /\ itemOutcome[1] = "invalidated"
    /\ polls[1] = 1
    /\ 1 \in pasteReq
    /\ 1 \notin placeholders
    /\ pasteBanner[1] = "refresh"

\* C17: the placeholder of a file is inserted, and its request written, only when every
\* earlier file of the event has ended and has no placeholder in the textarea.
C17_OneFileAtATime ==
    [][\A g \in Items :
          (\/ g \notin placeholders /\ g \in placeholders'
           \/ g \notin pasteReq /\ g \in pasteReq')
              => \A f \in 1..(g - 1) : itemOutcome[f] # "none" /\ f \notin placeholders]_vars

\* file 1 failed and lost its placeholder; file 2 has its placeholder and its request
C17_SecondAfterFailedFirst ==
    /\ itemOutcome[1] = "failure"
    /\ placeholders = {2}
    /\ 2 \in pasteReq
    /\ itemOutcome[2] = "none"

\* C18 as stated: once the page has consumed the terminal result of a request, success or
\* failure, storage.local holds neither request_<id> nor result_<id>.
C18_ConsumedThenDeleted ==
    \A r \in Ids :
        pagePc[r] \in {"success", "failure"} => ~sigReq[r].present /\ ~sigRes[r].present

C20_OneActiveRequestPerId ==
    /\ \A a, b \in Agents :
          (a # b /\ agentPc[a] = "active" /\ agentPc[b] = "active") => agentId[a] # agentId[b]
    /\ \A a \in Agents : agentPc[a] = "active" => idRequest[agentId[a]] = a

\* the step is the saveImage of request_<r> by performConversion / of result_<r> by the
\* drain loop of the Relay Host
WritesBulkReq(r) == dispPc[r] = "read" /\ dispPc'[r] = "setup"
WritesBulkRes(r) == rhCur = r /\ rhPc \in {"saveOk", "saveErr"} /\ rhPc' \notin {"saveOk", "saveErr"}

\* C21: every saveImage of request_<id> or result_<id> finds the key empty: a bulk-tier
\* record is written once and then only deleted, never overwritten in place.
C21_WriteOnceThenDelete ==
    [][\A r \in Ids :
          /\ WritesBulkReq(r) => ~bulkReq[r].present
          /\ WritesBulkRes(r) => ~bulkRes[r].present]_vars

\* C22: processConversion is called with the requestIds in the order queueConversion
\* pushed them (the ids started are the first ones pushed, in that order, and the ids
\* still waiting follow in the queue), and the step in which queueConversion runs never
\* waits for a conversion to end: it is taken while one is running and ends none.
C22_StartedInQueuedOrder ==
    /\ [](startedLog \o conversionQueue = queuedLog)
    /\ [][Len(queuedLog') > Len(queuedLog) => finishedCount' = finishedCount]_vars

\* three notifications were queued, 3 then 1 then 2, and all three conversions have been
\* started, in that order, two of them after the one before had ended
C22_ThreeStartedInOrder ==
    /\ queuedLog = <<3, 1, 2>>
    /\ startedLog = <<3, 1, 2>>
    /\ finishedCount = 2

SweepsSignal(r) == dispPc[r] = "sweep" /\ dispPc'[r] = "clear"
SweepsBulk(r) == dispPc[r] = "clear" /\ dispPc'[r] = "read"

\* C23: the sweep of cleanupAllData(X) leaves request_X and result_X as they are, in
\* storage.local by its first step and in the object store by its second, and after each
\* step no request_ or result_ record of another id is left in the tier it swept.
C23_SweepKeepsOwnRecords ==
    [][\A r \in Ids :
          /\ SweepsSignal(r) =>
                /\ sigReq'[r] = sigReq[r] /\ sigRes'[r] = sigRes[r]
                /\ \A q \in Ids \ {r} : ~sigReq'[q].present /\ ~sigRes'[q].present
          /\ SweepsBulk(r) =>
                /\ bulkReq'[r] = bulkReq[r] /\ bulkRes'[r] = bulkRes[r]
                /\ \A q \in Ids \ {r} : ~bulkReq'[q].present /\ ~bulkRes'[q].present]_vars

ReadsMissing(r) == dispPc[r] = "read" /\ ~sigReq[r].present /\ dispPc'[r] # "read"
NotFoundFailed(r) == dispPc[r] = "failed" /\ sigRes[r] = DispatcherErrorRecord(NoDataFound)
InSeq(r, queue) == \E i \in 1..Len(queue) : queue[i] = r

\* C24: the step of performConversion that reads a missing request_<id> ends the invocation
\* with the error record under result_<id> in storage.local, and changes neither the object
\* store nor the notifications to the Relay Host; an invocation that has failed is never
\* taken up again; and while that error record is there, the id has no record in the object
\* store, is in no notification, queue or conversion of the Relay Host, and performConversion
\* has run once for it.
C24_MissingRequestFailsFast ==
    /\ [][\A r \in Ids :
             /\ ReadsMissing(r) =>
                   /\ dispPc'[r] = "failed"
                   /\ sigRes'[r] = DispatcherErrorRecord(NoDataFound)
                   /\ bulkReq' = bulkReq /\ bulkRes' = bulkRes
                   /\ offMsgs' = offMsgs
             /\ dispPc[r] = "failed" => dispPc'[r] = "failed" /\ invocations'[r] = invocations[r]]_vars
    /\ [](\A r \in Ids :
             NotFoundFailed(r) =>
                /\ ~bulkReq[r].present /\ ~bulkRes[r].present
                /\ ~InSeq(r, offMsgs) /\ ~InSeq(r, conversionQueue) /\ rhCur # r
                /\ invocations[r] = 1)

\* request 2 failed for a missing request while request 1 went on to the Relay Host
C24_FailedWhileOtherConverts ==
    /\ NotFoundFailed(2)
    /\ rhCur = 1
    /\ bulkReq[1].present

PollFinds(r) == dispPc[r] = "poll" /\ dispPc'[r] = "cleanup"
PollDeletes(r) == dispPc[r] = "cleanup" /\ dispPc'[r] = "done"
PollExpires(r) == dispPc[r] = "poll" /\ dispPc'[r] = "failed"

\* C25: the poll step that finds result_<id> in the object store puts that very record
\* under result_<id> in storage.local and deletes nothing yet; the step after it, and no
\* other step of the invocation, deletes request_<id> and result_<id> from the object store
\* and leaves storage.local alone; the step that ends the poll on the clock stores the
\* 'Conversion timeout' error under result_<id> and leaves the object store as it is.
C25_MirrorThenDelete ==
    [][\A r \in Ids :
          /\ PollFinds(r) =>
                /\ bulkRes[r].present
                /\ sigRes'[r] = bulkRes[r]
                /\ bulkReq' = bulkReq /\ bulkRes' = bulkRes
          /\ PollDeletes(r) =>
                /\ ~bulkReq'[r].present /\ ~bulkRes'[r].present
                /\ \A q \in Ids \ {r} : bulkReq'[q] = bulkReq[q] /\ bulkRes'[q] = bulkRes[q]
                /\ sigRes' = sigRes /\ sigReq' = sigReq
          /\ dispPc'[r] = "done" /\ dispPc[r] # "done" => dispPc[r] = "cleanup"
          /\ PollExpires(r) =>
                /\ sigRes'[r] = DispatcherErrorRecord(ConversionTimeout)
                /\ bulkReq' = bulkReq /\ bulkRes' = bulkRes]_vars

\* request 1 was mirrored as a success and its bulk records deleted while the page still
\* waits; the poll of request 2 ran out with its request still in the object store
C25_MirroredAndTimedOut ==
    /\ dispPc[1] = "done" /\ sigRes[1].present /\ sigRes[1].success = "true"
    /\ ~bulkReq[1].present /\ ~bulkRes[1].present
    /\ dispPc[2] = "failed" /\ sigRes[2] = DispatcherErrorRecord(ConversionTimeout)
    /\ bulkReq[2].present

CallsCreateDocument == createCalls' > createCalls
CreationInFlight ==
    \/ docState = "loading"
    \/ \E i \in 1..Len(browserCalls) : browserCalls[i].api = "createDocument"

\* C26: whenever a call of setupOffscreenDocument reaches chrome.offscreen.createDocument,
\* the browser has no offscreen document, none is loading and no earlier createDocument call
\* is on its way; no createDocument call is ever rejected for a document that exists.
C26_NoSecondCreation ==
    /\ [][CallsCreateDocument => docState = "none" /\ ~CreationInFlight]_vars
    /\ [](\A i \in 1..Len(browserReplies) :
             browserReplies[i].api = "createDocument" /\ ~browserReplies[i].ok
                => docState = "none")

\* three overlapping calls have returned true and only one of them called createDocument
C26_ThreeCallsOneCreation ==
    /\ \A c \in Callers : setupPc[c] = "done"
    /\ createCalls = 1
    /\ docState = "ready"

Absent == ~sandboxFrame
Initializing == sandboxFrame /\ ~sandboxReady
Ready == sandboxFrame /\ sandboxReady
RoundTripFails == rhPc = "await" /\ rhPc' = "saveErr"
RoundTripSucceeds == rhPc = "await" /\ rhPc' = "saveOk"

\* C27: the cell goes from Absent to Initializing only when processConversion needs it,
\* from Initializing to Ready, and from Ready only to Absent; a round trip that ends in a
\* success leaves the Ready cell in place, and a round trip that ends in an error leaves
\* no cell, so that no item is ever posted to a cell that has an unanswered item.
C27_CellLifecycle ==
    /\ [][/\ Absent /\ ~Absent' => Initializing' /\ rhPc = "get"
          /\ Initializing /\ ~Initializing' => Ready'
          /\ Ready /\ ~Ready' => Absent'
          /\ RoundTripSucceeds => Ready /\ Ready'
          /\ RoundTripFails => Absent']_vars
    /\ [](\A r \in Ids : cellDropped[r] = 0)

TimerExpires == rhPc = "await" /\ rhOut' = RelayErrorRecord(SandboxTimeout)

\* C28: the step in which the per-item timer finds the entry still pending removes the
\* entry, hands the timeout error to saveImage for result_<id>, and leaves no cell; the
\* error record reaches the object store before the loop moves on, and no later item is
\* ignored by a cell that is still busy.
C28_TimeoutResetsCell ==
    /\ [][/\ TimerExpires =>
                /\ rhCur \notin pendingRequests'
                /\ rhPc' = "saveErr"
                /\ Absent'
          /\ rhPc = "saveErr" /\ rhPc' # "saveErr" => bulkRes'[rhCur] = rhOut]_vars
    /\ [](\A r \in Ids : cellDropped[r] = 0)

\* C29: every call of setupSandbox that builds a frame resolves: a processConversion that
\* waits in setupSandbox gets past it, and when the 3 s timer of a call fires the promise
\* of that call is resolved and sandboxReady is true.
C29_SetupResolves ==
    /\ [](rhPc = "setup" => <>(rhPc # "setup"))
    /\ [][readyTimers # <<>> /\ readyTimers' = Tail(readyTimers)
             => Head(readyTimers) \in resolvedSetups' /\ sandboxReady']_vars

Dispatched(request) ==
    request \in sentMsgs /\ request \notin bgInbox /\ request \notin offInbox

\* C30: performConversion is started only for messages without target 'offscreen' and
\* queueConversion only for messages with it, so no message is acted on by both listeners;
\* and every conversion message sent that both listeners have been given was acted on by
\* exactly one of them: by the service worker if it has no target, by the offscreen
\* document if it has.
C30_OneListenerActs ==
    /\ \A request \in bgStarted : request.target # "offscreen"
    /\ \A request \in offQueued : request.target = "offscreen"
    /\ bgStarted \cap offQueued = {}
    /\ \A request \in sentMsgs :
          Dispatched(request) =>
             IF request.target = "offscreen"
             THEN request \in offQueued /\ request \notin bgStarted
             ELSE request \in bgStarted /\ request \notin offQueued

\* both listeners have been given both messages of request 1: the page's message started
\* performConversion, the service worker's message was queued by the offscreen document
C30_BothMessagesDispatched ==
    /\ Dispatched(PageMessage(1)) /\ Dispatched(OffscreenMessage(1))
    /\ bgStarted = {PageMessage(1)}
    /\ offQueued = {OffscreenMessage(1)}

\* C33: in every state of the Relay Host, sandboxReady is true only while sandboxFrame
\* holds a frame.
C33_ReadyImpliesFrame == sandboxReady => sandboxFrame

LoopRunning == rhPc = "get"

\* C35: isProcessing is true only while a drain loop is running, so that a requestId
\* pushed later is handed to processConversion by the running loop or by a new one.
C35_FlagOnlyWhileLoopRuns == isProcessing => LoopRunning

ResumesUnlisted ==
    /\ browserReplies # <<>>
    /\ Head(browserReplies).api = "getContexts"
    /\ ~Head(browserReplies).ok
    /\ browserReplies' = Tail(browserReplies)

\* C36: `creating` never keeps a rejected promise, and a call of setupOffscreenDocument
\* that learns that no document is listed while none exists and no creation is under way
\* calls createDocument, also after an earlier createDocument was rejected.
C36_RejectionClearsGuard ==
    /\ [](creatingPromise # "rejected")
    /\ [][ResumesUnlisted /\ docState = "none" /\ ~CreationInFlight
             /\ creatingPromise # "pending" => CallsCreateDocument]_vars

\* C37: once a success result of a request has been mirrored into storage.local, no step
\* puts an error under result_<id> there; the only change left is the removal by the page.
C37_SuccessNotOverwritten ==
    [][\A r \in Ids :
          mirroredOk[r] /\ mirrorSignal'[r] # mirrorSignal[r] => mirrorSignal'[r] = "none"]_vars


\* the Converter Cell posts its CONVERT_RESULT for a request whose per-item timer has
\* already deleted the pending entry
LateReply ==
    /\ isConverting
    /\ cellReplied' # cellReplied
    /\ cellCur.requestId \notin pendingRequests

\* C38: a reply of the cell that arrives after the per-item deadline of its request is
\* discarded: no pending entry (of any request) is resolved, processConversion does not
\* move, and no result record is written or changed in either tier.
C38_LateReplyDiscarded ==
    [][LateReply => UNCHANGED <<pendingRequests, rhPc, rhCur, rhOut, bulkRes, sigRes>>]_vars

\* the cell has answered a request whose stored result is the sandbox timeout, while the
\* next request is waiting for its own reply
C38_AnsweredAfterTimeout ==
    \E r \in Ids :
        /\ cellReplied[r] = 1
        /\ bulkRes[r] = RelayErrorRecord(SandboxTimeout)
        /\ pendingRequests # {}


\* C39: on every path through handleDataTransfer the handling of one file removes at most
\* one placeholder occurrence from the textarea, so the identical placeholder of an
\* overlapping event stays until that event's own handling removes it.
C39_OneRemovalPerFile == \A h \in Handlers : olRemovals[h] <= 1

\* an item of the kind the extension converts, as the specification words it: MIME type
\* image/heic, or a file name ending in .heic in any letter case
HeicItem(item) == item.type = "image/heic" \/ EndsWithHeicIgnoreCase(item.name)

CarriesHeic(event) == \E i \in DOMAIN event.items : HeicItem(event.items[i])

Untouched(event) ==
    /\ ~event.suppressed
    /\ event.placeholders = 0
    /\ event.writes = 0
    /\ event.notes = 0

\* the listener has returned from the synchronous part of handleDataTransfer for event i
Listened(i) == i < Len(evLog) \/ evPc # "listen"

\* C40: the synthetic event dispatched with the converted files carries no qualifying
\* item, so the listener that sees it neither suppresses it nor starts a conversion, and
\* no further event is dispatched.
C40_RedispatchEndsThere ==
    /\ Len(evLog) <= 2
    /\ \A i \in DOMAIN evLog : i > 1 => ~CarriesHeic(evLog[i]) /\ Untouched(evLog[i])

\* a file named in mixed case and without a MIME type was converted, and the synthetic
\* event with its JPEG went through the listener with the runtime still there
C40_SyntheticSeenAndLeft ==
    /\ Len(evLog) = 2
    /\ evPc = "done"
    /\ evLog[2].valid
    /\ \E i \in DOMAIN evLog[1].items :
          /\ evLog[1].items[i] = [name |-> <<"p", ".", "H", "e", "I", "C">>, type |-> ""]
    /\ \E i \in DOMAIN evLog[2].items : evLog[2].items[i].name = PhotoJpg

CopiedToBulk(r) == ~bulkReq[r].present /\ bulkReq'[r].present
ConsumedByCell(r) == cellCur' # cellCur /\ cellCur'.requestId = r
ResultToBulk(r) == ~bulkRes[r].present /\ bulkRes'[r].present
ConvertedToBulk(r) == ResultToBulk(r) /\ bulkRes'[r].data # <<>>
MirroredToSignal(r) == dispPc[r] = "poll" /\ dispPc'[r] = "cleanup"
ConsumedByPage(r) == pagePc[r] = "polling" /\ pagePc'[r] \in {"success", "failure"}
BulkDeleted(r) == dispPc[r] = "cleanup" /\ dispPc'[r] = "done"

\* what the state tells about the steps taken so far
RequestWritten(r) == pagePc[r] # "idle"
ReadFromBulk(r) == rhCur = r /\ rhData.present
CellHasConverted(r) == cellReceived[r] > cellDropped[r] /\ cellReplied[r] >= 1
ResultMirrored(r) == dispPc[r] \in {"cleanup", "done"}
PageHasConsumed(r) == pagePc[r] \in {"success", "failure"}

\* the steps up to the mirror, each only after the one before it
OrderedUpToMirror(r) ==
    /\ CopiedToBulk(r) => RequestWritten(r) /\ sigReq[r].present
    /\ ConsumedByCell(r) => ReadFromBulk(r)' /\ cellCur'.base64Data = rhData'.data
    /\ ConvertedToBulk(r) => CellHasConverted(r)
    /\ MirroredToSignal(r) => bulkRes[r].present /\ sigRes'[r] = bulkRes[r]
    /\ ConsumedByPage(r) /\ pagePc'[r] = "success" => ResultMirrored(r)

\* C32 (as stated): the seven lifecycle steps of a request happen in the stated order, the
\* deletion of the two bulk-tier records after the Page Agent has consumed the result.
C32_LifecycleInOrder ==
    [][\A r \in Ids : OrderedUpToMirror(r) /\ (BulkDeleted(r) => PageHasConsumed(r))]_vars

\* C32 (amended): written, copied, consumed by the cell, converted result written and
\* mirrored happen in this order; the Page Agent's consumption of a converted result and the
\* deletion of the two bulk-tier records both follow the mirror step, in either order.
C32_DeletionFollowsMirror ==
    [][\A r \in Ids : OrderedUpToMirror(r) /\ (BulkDeleted(r) => ResultMirrored(r))]_vars

\* the bulk-tier records of a converted request are gone while the Page Agent is still
\* polling and its result waits in the signal tier
C32_DeletedBeforeConsumed ==
    \E r \in Ids :
        /\ dispPc[r] = "done"
        /\ pagePc[r] = "polling"
        /\ sigRes[r].present
        /\ sigRes[r].data # <<>>
        /\ ~bulkReq[r].present
        /\ ~bulkRes[r].present

====
